---- MODULE Spec2Model ----
(***************************************************************************)
(* Model of the extraction workflow of yuki-cidoc-proj:                    *)
(*   - SpecTask  : one task run by ExtractionWorkflow.execute_full_        *)
(*                 extraction, interleaved with the dashboard's abort      *)
(*                 write (DatabaseHelper.abort_task);                      *)
(*   - SpecBatch : BatchScheduler.execute_batch, its worker pool and the   *)
(*                 round-robin bot assignment;                             *)
(*   - SpecSites : successive runs of the site step against the sites      *)
(*                 table (get_site_by_report / get_site_by_name /          *)
(*                 insert_site / update_site).                             *)
(* The three specifications share one variable tuple; each leaves the      *)
(* variables of the other two at their initial value.                      *)
(***************************************************************************)
EXTENDS Integers, Sequences, FiniteSets, TLC

(***************************************************************************)
(* Bounds                                                                  *)
(***************************************************************************)
\* largest number of chunk-level LLM calls one artifact pass makes
MaxChunks == 2

(***************************************************************************)
(* Task model: state                                                       *)
(***************************************************************************)
VARIABLES
    status,      \* extraction_tasks.status of the task row
    abortOffered, \* the dashboard shows the abort button of the task
    pc,          \* position of the worker inside execute_full_extraction
    exc,         \* origin of the exception being unwound ("none" if none)
    templates,   \* keys of the templates argument
    layout,      \* tomb_blocks: layout[i] = number of text chunks of block i
    regLeft,     \* templates still to register (loop of lines 98-107)
    siteDone,    \* the site step (lines 116-178) has finished
    siteId,      \* local site_id; 0 stands for None
    pass,        \* artifact_type of the running _extract_artifacts, or "none"
    tomb,        \* loop index i of _extract_artifacts (1-based)
    chunk,       \* loop index chunk_idx of _extract_artifacts (1-based)
    collected,   \* all_artifacts, as the set of chunks whose records it holds
    response,    \* local variable response of _extract_artifacts
    inflight,    \* LLM calls issued and not yet returned
    calls,       \* LLM calls that returned, with their outcome
    logs,        \* rows of extraction_logs of the task
    files,       \* files written under logs/failed_responses
    passDone     \* artifact passes that returned

taskVars == <<status, abortOffered, pc, exc, templates, layout, regLeft, siteDone,
              siteId, pass, tomb, chunk, collected, response, inflight, calls,
              logs, files, passDone>>

Kinds == {"site", "period", "pottery", "jade"}

NoResponse == [kind |-> "none", tomb |-> 0, chunk |-> 0]

Call(k, t, c) == [kind |-> k, tomb |-> t, chunk |-> c]

\* outcome of one LLM round trip followed by extract_json_from_response:
\*   ok        - a response came back and was parsed
\*   transport - call_llm_api raised, no response was assigned
\*   parse     - a response came back, extract_json_from_response raised
Outcomes == {"ok", "transport", "parse"}

Log(level, msg, detail) == <<level, msg, detail>>

RECURSIVE SumSeq(_)
SumSeq(s) == IF s = <<>> THEN 0 ELSE Head(s) + SumSeq(Tail(s))

\* the tomb blocks a report text can be cut into, each with its chunk count
Layouts ==
    { l \in UNION { [1..n -> 1..MaxChunks] : n \in 1..MaxChunks } :
        SumSeq(l) <= MaxChunks }

AllChunks == { <<t, c>> \in (1..Len(layout)) \X (1..MaxChunks) : c <= layout[t] }


(***************************************************************************)
(* Task model: helpers                                                     *)
(***************************************************************************)
\* _check_cancellation reads the row and raises when it reads 'aborted'
Aborted == status = "aborted"

\* the raise of _check_cancellation, caught by the except clause of
\* execute_full_extraction
Cancel ==
    /\ logs' = logs \cup {Log("WARNING", "stop_signal_detected", NoResponse)}
    /\ exc' = "cancel"
    /\ pc' = "except_log"

\* the status the except clause of execute_full_extraction persists
except_status == "failed"

\* level of the first log row the except clause writes
except_level == "ERROR"

\* step that follows the jade step
AfterJade == "stats"

\* step that follows the pottery step
AfterPottery_skipsJade == "stats"
AfterPottery == IF "jade" \in templates THEN "chk_jade" ELSE AfterJade

\* step that follows the period step
AfterPeriod == IF "pottery" \in templates THEN "chk_pottery" ELSE AfterPottery

\* step that follows the site step, which resolved site_id to sid
AfterSite(sid) ==
    IF "period" \in templates /\ sid # 0 THEN "chk_period" ELSE AfterPeriod

AfterPass(p) == IF p = "pottery" THEN AfterPottery ELSE AfterJade

AfterRegister(left) == IF left > 0 THEN "register" ELSE "chk_index"

\* where an exception raised by the try body of one chunk goes: the except
\* clause of the chunk loop swallows it ("none" = nothing propagates)
chunk_exc_propagates(o) == IF o # "ok" THEN "chunk" ELSE "none"
chunk_exc(o) == "none"

\* all_artifacts after the try body of one chunk ended with outcome o
collected_after(c, o) ==
    IF o = "ok" THEN collected \cup {<<c.tomb, c.chunk>>} ELSE collected

\* local variable response after the try body of one chunk: assigned when
\* call_llm_api returned, left as it was when call_llm_api raised
response_after(c, o) == IF o = "transport" THEN response ELSE c

\* log rows after one chunk
chunk_logs(c, o) ==
    IF o = "ok"
    THEN {Log("INFO", "chunk_extracted", c)}
    ELSE {Log("ERROR", "chunk_failed", c)}
         \cup (IF response_after(c, o) # NoResponse
               THEN {Log("WARNING", "failed_response_saved", c)} ELSE {})

\* files under logs/failed_responses after one chunk: written in the except
\* clause when 'response' in locals() and response
chunk_files(c, o) ==
    IF o # "ok" /\ response_after(c, o) # NoResponse
    THEN {[type |-> c.kind, tomb |-> c.tomb, chunk |-> c.chunk,
           content |-> response_after(c, o)]}
    ELSE {}

\* position after chunk (t, c) of the loops over tomb_blocks and text_chunks
NextChunkPc(t, c) ==
    IF c < layout[t] THEN "art_chunk"
    ELSE IF t < Len(layout) THEN "art_tomb" ELSE "art_expand"

ExpandKind(p) == IF p = "pottery" THEN "expand_pottery" ELSE "expand_jade"


(***************************************************************************)
(* Task model: actions of execute_full_extraction                          *)
(***************************************************************************)
\* line 89 (the task row was created by create_task before the call)
Start ==
    /\ pc = "idle"
    /\ logs' = logs \cup {Log("INFO", "start", NoResponse)}
    /\ pc' = "set_running"
    /\ UNCHANGED <<status, abortOffered, exc, templates, layout, regLeft, siteDone,
                   siteId, pass, tomb, chunk, collected, response, inflight,
                   calls, files, passDone>>

\* line 93
SetRunning ==
    /\ pc = "set_running"
    /\ status' = "running"
    /\ pc' = "chk_start"
    /\ UNCHANGED <<abortOffered, exc, templates, layout, regLeft, siteDone, siteId,
                   pass, tomb, chunk, collected, response, inflight, calls,
                   logs, files, passDone>>

\* line 94, then line 97
ChkStart ==
    /\ pc = "chk_start"
    /\ IF Aborted THEN Cancel
       ELSE /\ logs' = logs \cup {Log("INFO", "register_templates", NoResponse)}
            /\ pc' = AfterRegister(regLeft)
            /\ UNCHANGED exc
    /\ UNCHANGED <<status, abortOffered, templates, layout, regLeft, siteDone,
                   siteId, pass, tomb, chunk, collected, response, inflight,
                   calls, files, passDone>>

\* one iteration of the loop of lines 98-107: a checkpoint, then the
\* registration, whose failure is caught inside the loop (its log row, INFO or
\* WARNING, is one row either way and is recorded as one)
Register ==
    /\ pc = "register"
    /\ IF Aborted THEN Cancel /\ UNCHANGED regLeft
       ELSE /\ logs' = logs \cup {Log("INFO", "template_registration", NoResponse)}
            /\ regLeft' = regLeft - 1
            /\ pc' = AfterRegister(regLeft - 1)
            /\ UNCHANGED exc
    /\ UNCHANGED <<status, abortOffered, templates, layout, siteDone, siteId, pass,
                   tomb, chunk, collected, response, inflight, calls, files,
                   passDone>>

\* lines 111-112
ChkIndex ==
    /\ pc = "chk_index"
    /\ IF Aborted THEN Cancel
       ELSE /\ logs' = logs \cup {Log("INFO", "index_images", NoResponse)}
            /\ pc' = "index"
            /\ UNCHANGED exc
    /\ UNCHANGED <<status, abortOffered, templates, layout, regLeft, siteDone,
                   siteId, pass, tomb, chunk, collected, response, inflight,
                   calls, files, passDone>>

\* lines 113-114; _index_images re-raises every error but a UNIQUE violation
IndexImages ==
    /\ pc = "index"
    /\ \E ok \in BOOLEAN :
          IF ok
          THEN /\ logs' = logs \cup {Log("INFO", "images_indexed", NoResponse)}
               /\ pc' = "chk_site"
               /\ UNCHANGED exc
          ELSE /\ exc' = "index"
               /\ pc' = "except_log"
               /\ UNCHANGED logs
    /\ UNCHANGED <<status, abortOffered, templates, layout, regLeft, siteDone,
                   siteId, pass, tomb, chunk, collected, response, inflight,
                   calls, files, passDone>>

\* lines 118-122 and 164-178: without a site template site_id is the id of a
\* site found by report or by name, or None
ChkSite ==
    /\ pc = "chk_site"
    /\ IF Aborted THEN Cancel /\ UNCHANGED <<siteDone, siteId>>
       ELSE IF "site" \in templates
       THEN /\ logs' = logs \cup {Log("INFO", "extract_site", NoResponse)}
            /\ pc' = "site_call"
            /\ UNCHANGED <<exc, siteDone, siteId>>
       ELSE \E sid \in {0, 1} :
            /\ siteId' = sid
            /\ siteDone' = TRUE
            /\ logs' = logs \cup
                 (IF sid # 0 THEN {Log("INFO", "site_reused", NoResponse)} ELSE {})
            /\ pc' = AfterSite(sid)
            /\ UNCHANGED exc
    /\ UNCHANGED <<status, abortOffered, templates, layout, regLeft, pass, tomb,
                   chunk, collected, response, inflight, calls, files, passDone>>

\* call_llm_api of _extract_site (line 521) or _extract_site_data_only (473)
SiteCall ==
    /\ pc = "site_call"
    /\ inflight' = inflight \cup {Call("site", 0, 0)}
    /\ pc' = "site_wait"
    /\ UNCHANGED <<status, abortOffered, exc, templates, layout, regLeft, siteDone,
                   siteId, pass, tomb, chunk, collected, response, calls, logs,
                   files, passDone>>

\* the call returns or raises, extract_json_from_response parses or raises
\* (lines 521-522, 473-474); nothing around them catches, so a failure
\* reaches the except clause of execute_full_extraction
SiteReturn ==
    /\ pc = "site_wait"
    /\ \E o \in Outcomes :
        /\ inflight' = inflight \ {Call("site", 0, 0)}
        /\ calls' = calls \cup {[call |-> Call("site", 0, 0), outcome |-> o]}
        /\ IF o = "ok"
           THEN /\ siteId' = 1
                /\ siteDone' = TRUE
                /\ logs' = logs \cup {Log("INFO", "site_done", NoResponse)}
                /\ pc' = AfterSite(1)
                /\ UNCHANGED exc
           ELSE /\ exc' = "site"
                /\ pc' = "except_log"
                /\ UNCHANGED <<siteId, siteDone, logs>>
    /\ UNCHANGED <<status, abortOffered, templates, layout, regLeft, pass, tomb,
                   chunk, collected, response, files, passDone>>

\* lines 183-184
ChkPeriod ==
    /\ pc = "chk_period"
    /\ IF Aborted THEN Cancel
       ELSE /\ logs' = logs \cup {Log("INFO", "extract_periods", NoResponse)}
            /\ pc' = "period_call"
            /\ UNCHANGED exc
    /\ UNCHANGED <<status, abortOffered, templates, layout, regLeft, siteDone,
                   siteId, pass, tomb, chunk, collected, response, inflight,
                   calls, files, passDone>>

\* call_llm_api of _extract_periods (line 642)
PeriodCall ==
    /\ pc = "period_call"
    /\ inflight' = inflight \cup {Call("period", 0, 0)}
    /\ pc' = "period_wait"
    /\ UNCHANGED <<status, abortOffered, exc, templates, layout, regLeft, siteDone,
                   siteId, pass, tomb, chunk, collected, response, calls, logs,
                   files, passDone>>

\* lines 642-661 and 186
PeriodReturn ==
    /\ pc = "period_wait"
    /\ \E o \in Outcomes :
        /\ inflight' = inflight \ {Call("period", 0, 0)}
        /\ calls' = calls \cup {[call |-> Call("period", 0, 0), outcome |-> o]}
        /\ IF o = "ok"
           THEN /\ logs' = logs \cup {Log("INFO", "periods_done", NoResponse)}
                /\ pc' = AfterPeriod
                /\ UNCHANGED exc
           ELSE /\ exc' = "period"
                /\ pc' = "except_log"
                /\ UNCHANGED logs
    /\ UNCHANGED <<status, abortOffered, templates, layout, regLeft, siteDone,
                   siteId, pass, tomb, chunk, collected, response, files,
                   passDone>>


\* lines 191-192 / 201-202 and the head of _extract_artifacts (729-750)
ChkPass(here, p) ==
    /\ pc = here
    /\ IF Aborted
       THEN Cancel /\ UNCHANGED <<pass, tomb, chunk, collected, response>>
       ELSE /\ logs' = logs \cup {Log("INFO", "extract_artifacts", Call(p, 0, 0))}
            /\ pass' = p
            /\ tomb' = 1
            /\ chunk' = 1
            /\ collected' = {}
            /\ response' = NoResponse
            /\ pc' = "art_tomb"
            /\ UNCHANGED exc
    /\ UNCHANGED <<status, abortOffered, templates, layout, regLeft, siteDone,
                   siteId, inflight, calls, files, passDone>>

ChkPottery == ChkPass("chk_pottery", "pottery")

ChkJade == ChkPass("chk_jade", "jade")

\* lines 751-761: head of one iteration over tomb_blocks
ArtTomb ==
    /\ pc = "art_tomb"
    /\ IF Aborted THEN Cancel /\ UNCHANGED chunk
       ELSE /\ logs' = logs \cup {Log("INFO", "process_tomb", Call(pass, tomb, 0))}
            /\ chunk' = 1
            /\ pc' = "art_chunk"
            /\ UNCHANGED exc
    /\ UNCHANGED <<status, abortOffered, templates, layout, regLeft, siteDone,
                   siteId, pass, tomb, collected, response, inflight, calls,
                   files, passDone>>

\* lines 763-777: head of one iteration over text_chunks
ArtChunk ==
    /\ pc = "art_chunk"
    /\ IF Aborted THEN Cancel
       ELSE /\ pc' = "art_call"
            /\ UNCHANGED <<exc, logs>>
    /\ UNCHANGED <<status, abortOffered, templates, layout, regLeft, siteDone,
                   siteId, pass, tomb, chunk, collected, response, inflight,
                   calls, files, passDone>>

\* line 781: call_llm_api
ArtCall ==
    /\ pc = "art_call"
    /\ inflight' = inflight \cup {Call(pass, tomb, chunk)}
    /\ pc' = "art_wait"
    /\ UNCHANGED <<status, abortOffered, exc, templates, layout, regLeft, siteDone,
                   siteId, pass, tomb, chunk, collected, response, calls, logs,
                   files, passDone>>

\* lines 781-828: the call ends, the try body finishes or its except clause
\* runs, and the loop goes on
ArtReturn ==
    /\ pc = "art_wait"
    /\ \E o \in Outcomes :
        LET c == Call(pass, tomb, chunk) IN
        /\ inflight' = inflight \ {c}
        /\ calls' = calls \cup {[call |-> c, outcome |-> o]}
        /\ response' = response_after(c, o)
        /\ collected' = collected_after(c, o)
        /\ logs' = logs \cup chunk_logs(c, o)
        /\ files' = files \cup chunk_files(c, o)
        /\ IF chunk_exc(o) = "none"
           THEN /\ pc' = NextChunkPc(tomb, chunk)
                /\ chunk' = IF chunk < layout[tomb] THEN chunk + 1 ELSE chunk
                /\ tomb' = IF chunk < layout[tomb] \/ tomb = Len(layout)
                           THEN tomb ELSE tomb + 1
                /\ UNCHANGED exc
           ELSE /\ exc' = chunk_exc(o)
                /\ pc' = "except_log"
                /\ UNCHANGED <<tomb, chunk>>
    /\ UNCHANGED <<status, abortOffered, templates, layout, regLeft, siteDone,
                   siteId, pass, passDone>>

\* lines 878-1061: merge, map, insert, link; the function returns
FinishPass ==
    /\ logs' = logs \cup {Log("INFO", "artifacts_done", Call(pass, 0, 0))}
    /\ passDone' = passDone \cup {pass}
    /\ pc' = AfterPass(pass)
    /\ pass' = "none"
    /\ collected' = {}
    /\ response' = NoResponse

\* lines 832-833: _expand_artifact_ranges; a record whose code looks like a
\* list or an unresolved range makes it call _expand_code_with_llm (387)
ArtExpand ==
    /\ pc = "art_expand"
    /\ \E needLLM \in BOOLEAN :
        /\ needLLM => collected # {}
        /\ IF needLLM
           THEN /\ inflight' = inflight \cup {Call(ExpandKind(pass), 0, 0)}
                /\ pc' = "expand_wait"
                /\ UNCHANGED <<logs, passDone, pass, collected, response>>
           ELSE FinishPass /\ UNCHANGED inflight
    /\ UNCHANGED <<status, abortOffered, exc, templates, layout, regLeft, siteDone,
                   siteId, tomb, chunk, calls, files>>

\* lines 321-331: _expand_code_with_llm returns a list, or [] on any error;
\* no outcome of the call leaves _expand_artifact_ranges by an exception
ExpandReturn ==
    /\ pc = "expand_wait"
    /\ inflight' = inflight \ {Call(ExpandKind(pass), 0, 0)}
    /\ calls' = calls \cup {[call |-> Call(ExpandKind(pass), 0, 0), outcome |-> "any"]}
    /\ FinishPass
    /\ UNCHANGED <<status, abortOffered, exc, templates, layout, regLeft, siteDone,
                   siteId, tomb, chunk, files>>

\* lines 209-214
UpdateStatistics ==
    /\ pc = "stats"
    /\ pc' = "set_completed"
    /\ UNCHANGED <<status, abortOffered, exc, templates, layout, regLeft, siteDone,
                   siteId, pass, tomb, chunk, collected, response, inflight,
                   calls, logs, files, passDone>>

\* line 217
SetCompleted ==
    /\ pc = "set_completed"
    /\ status' = "completed"
    /\ pc' = "log_done"
    /\ UNCHANGED <<abortOffered, exc, templates, layout, regLeft, siteDone, siteId,
                   pass, tomb, chunk, collected, response, inflight, calls,
                   logs, files, passDone>>

\* lines 218-220
LogDone ==
    /\ pc = "log_done"
    /\ logs' = logs \cup {Log("INFO", "done", NoResponse)}
    /\ pc' = "returned"
    /\ UNCHANGED <<status, abortOffered, exc, templates, layout, regLeft, siteDone,
                   siteId, pass, tomb, chunk, collected, response, inflight,
                   calls, files, passDone>>

\* line 223: first statement of the except clause
ExceptLog ==
    /\ pc = "except_log"
    /\ logs' = logs \cup {Log(except_level, "extraction_failed", Call(exc, 0, 0))}
    /\ pc' = "except_status"
    /\ UNCHANGED <<status, abortOffered, exc, templates, layout, regLeft, siteDone,
                   siteId, pass, tomb, chunk, collected, response, inflight,
                   calls, files, passDone>>

\* line 224
ExceptStatus ==
    /\ pc = "except_status"
    /\ status' = except_status
    /\ pc' = "except_detail"
    /\ UNCHANGED <<abortOffered, exc, templates, layout, regLeft, siteDone, siteId,
                   pass, tomb, chunk, collected, response, inflight, calls,
                   logs, files, passDone>>

\* lines 226-229
ExceptDetail ==
    /\ pc = "except_detail"
    /\ logs' = logs \cup {Log("ERROR", "error_detail", Call(exc, 0, 0))}
    /\ pc' = "raised"
    /\ UNCHANGED <<status, abortOffered, exc, templates, layout, regLeft, siteDone,
                   siteId, pass, tomb, chunk, collected, response, inflight,
                   calls, files, passDone>>

(***************************************************************************)
(* Task model: the dashboard                                               *)
(***************************************************************************)
\* the task page reads the rows and shows the abort button of a row whose
\* status it read as running (gui/app_v3.py lines 386 and 424-425)
GuiRender ==
    /\ abortOffered # (status = "running")
    /\ abortOffered' = (status = "running")
    /\ UNCHANGED <<status, pc, exc, templates, layout, regLeft, siteDone, siteId,
                   pass, tomb, chunk, collected, response, inflight, calls,
                   logs, files, passDone>>

\* a click on the button runs abort_task: an unconditional UPDATE of the
\* status (gui/db_helper.py line 105)
abort_task ==
    /\ abortOffered
    /\ status' = "aborted"
    /\ UNCHANGED <<abortOffered, pc, exc, templates, layout, regLeft, siteDone,
                   siteId, pass, tomb, chunk, collected, response, inflight,
                   calls, logs, files, passDone>>

InitTask ==
    /\ status = "pending"
    /\ abortOffered = FALSE
    /\ pc = "idle"
    /\ exc = "none"
    /\ templates \in SUBSET Kinds
    /\ layout \in Layouts
    /\ regLeft = Cardinality(templates)
    /\ siteDone = FALSE
    /\ siteId = 0
    /\ pass = "none"
    /\ tomb = 0
    /\ chunk = 0
    /\ collected = {}
    /\ response = NoResponse
    /\ inflight = {}
    /\ calls = {}
    /\ logs = {}
    /\ files = {}
    /\ passDone = {}


(***************************************************************************)
(* Batch model: BatchScheduler.execute_batch                               *)
(***************************************************************************)
\* largest number of tasks handed to execute_batch
MaxTasks == 3
\* largest size of the bot pool of config.json
MaxBots == 2
\* largest max_workers argument
MaxWorkers == 2

VARIABLES
    bN,         \* len(tasks)
    bPool,      \* len(self.bot_pool)
    bMaxW,      \* max_workers
    bpc,        \* position of the caller inside execute_batch
    bCreated,   \* task rows created so far (len(pending_tasks))
    bNext,      \* index of the next task to submit (1-based)
    bQueue,     \* work queue of the executor: submitted, not yet started
    bRunning,   \* tasks running _run_single_task on a worker thread
    bLLM,       \* running tasks that have an LLM call in flight
    bOutcome,   \* per task: "none", or how its future ended ("ok", "raised")
    bYielded,   \* futures as_completed has yielded
    bResults    \* results

batchVars == <<bN, bPool, bMaxW, bpc, bCreated, bNext, bQueue, bRunning, bLLM,
               bOutcome, bYielded, bResults>>

Min(a, b) == IF a < b THEN a ELSE b

\* lines 44-46
actual_workers ==
    IF Min(bMaxW, bPool) < 1 THEN 1 ELSE Min(bMaxW, bPool)

\* line 78: the bot of the i-th submitted task (i counted from 1)
BotOf(i) == (i - 1) % bPool

\* the entry lines 90-96 append for a future that ended with outcome o
result_entry(i, o) ==
    [task |-> i, status |-> IF o = "ok" THEN "success" ELSE "failed"]

\* the entry of the early returns of lines 41 and 68
ErrorEntry == [task |-> 0, status |-> "failed"]

\* whether the loop over as_completed goes on after a future that ended with
\* outcome o: future.result() re-raises, lines 94-96 catch
collect_continues_uncaught(o) == o = "ok"
collect_continues(o) == TRUE

\* lines 40-41
BatchNoBots ==
    /\ bpc = "begin"
    /\ bPool = 0
    /\ bResults' = <<ErrorEntry>>
    /\ bpc' = "done"
    /\ UNCHANGED <<bN, bPool, bMaxW, bCreated, bNext, bQueue, bRunning, bLLM,
                   bOutcome, bYielded>>

\* lines 44-52
BatchBegin ==
    /\ bpc = "begin"
    /\ bPool > 0
    /\ bpc' = "create"
    /\ UNCHANGED <<bN, bPool, bMaxW, bCreated, bNext, bQueue, bRunning, bLLM,
                   bOutcome, bYielded, bResults>>

\* lines 54-70: one iteration of the creation loop, or its except clause
BatchCreate ==
    /\ bpc = "create"
    /\ bCreated < bN
    /\ \E ok \in BOOLEAN :
          IF ok
          THEN /\ bCreated' = bCreated + 1
               /\ UNCHANGED <<bpc, bResults>>
          ELSE /\ bResults' = <<ErrorEntry>>
               /\ bpc' = "done"
               /\ UNCHANGED bCreated
    /\ UNCHANGED <<bN, bPool, bMaxW, bNext, bQueue, bRunning, bLLM, bOutcome,
                   bYielded>>

\* line 72: the creation loop ended, the executor is entered
BatchEnter ==
    /\ bpc = "create"
    /\ bCreated = bN
    /\ bpc' = IF bN = 0 THEN "collect" ELSE "submit"
    /\ UNCHANGED <<bN, bPool, bMaxW, bCreated, bNext, bQueue, bRunning, bLLM,
                   bOutcome, bYielded, bResults>>

\* lines 76-85: one executor.submit
BatchSubmit ==
    /\ bpc = "submit"
    /\ bQueue' = Append(bQueue, bNext)
    /\ bNext' = bNext + 1
    /\ bpc' = IF bNext = bN THEN "collect" ELSE "submit"
    /\ UNCHANGED <<bN, bPool, bMaxW, bCreated, bRunning, bLLM, bOutcome,
                   bYielded, bResults>>

\* a worker thread of the ThreadPoolExecutor takes the oldest queued task
WorkerTake ==
    /\ bQueue # <<>>
    /\ Cardinality(bRunning) < actual_workers
    /\ bRunning' = bRunning \cup {Head(bQueue)}
    /\ bQueue' = Tail(bQueue)
    /\ UNCHANGED <<bN, bPool, bMaxW, bpc, bCreated, bNext, bLLM, bOutcome,
                   bYielded, bResults>>

\* a running task issues an LLM call with the bot_id/api_key it was given
\* (workflow.py lines 77-82, call_llm_api(prompt, self.llm_config))
TaskLLMCall(i) ==
    /\ i \in bRunning \ bLLM
    /\ bLLM' = bLLM \cup {i}
    /\ UNCHANGED <<bN, bPool, bMaxW, bpc, bCreated, bNext, bQueue, bRunning,
                   bOutcome, bYielded, bResults>>

TaskLLMReturn(i) ==
    /\ i \in bLLM
    /\ bLLM' = bLLM \ {i}
    /\ UNCHANGED <<bN, bPool, bMaxW, bpc, bCreated, bNext, bQueue, bRunning,
                   bOutcome, bYielded, bResults>>

\* lines 100-120: _run_single_task returns the task id or raises what
\* execute_full_extraction raised
TaskFinish(i) ==
    /\ i \in bRunning \ bLLM
    /\ \E o \in {"ok", "raised"} : bOutcome' = [bOutcome EXCEPT ![i] = o]
    /\ bRunning' = bRunning \ {i}
    /\ UNCHANGED <<bN, bPool, bMaxW, bpc, bCreated, bNext, bQueue, bLLM,
                   bYielded, bResults>>

\* lines 88-96: as_completed yields a finished future
BatchCollect(i) ==
    /\ bpc = "collect"
    /\ i \in 1..bN
    /\ bOutcome[i] # "none"
    /\ i \notin bYielded
    /\ bYielded' = bYielded \cup {i}
    /\ IF collect_continues(bOutcome[i])
       THEN /\ bResults' = Append(bResults, result_entry(i, bOutcome[i]))
            /\ UNCHANGED bpc
       ELSE /\ bpc' = "shutdown"
            /\ UNCHANGED bResults
    /\ UNCHANGED <<bN, bPool, bMaxW, bCreated, bNext, bQueue, bRunning, bLLM,
                   bOutcome>>

\* as_completed is exhausted
BatchCollected ==
    /\ bpc = "collect"
    /\ bYielded = 1..bN
    /\ bpc' = "shutdown"
    /\ UNCHANGED <<bN, bPool, bMaxW, bCreated, bNext, bQueue, bRunning, bLLM,
                   bOutcome, bYielded, bResults>>

\* the with block of line 72 ends: shutdown(wait=True), then line 98
BatchReturn ==
    /\ bpc = "shutdown"
    /\ \A i \in 1..bN : bOutcome[i] # "none"
    /\ bpc' = "done"
    /\ UNCHANGED <<bN, bPool, bMaxW, bCreated, bNext, bQueue, bRunning, bLLM,
                   bOutcome, bYielded, bResults>>

InitBatchIdle ==
    /\ bN = 0 /\ bPool = 0 /\ bMaxW = 0 /\ bpc = "off" /\ bCreated = 0
    /\ bNext = 1 /\ bQueue = <<>> /\ bRunning = {} /\ bLLM = {}
    /\ bOutcome = <<>> /\ bYielded = {} /\ bResults = <<>>

InitBatch ==
    /\ bN \in 0..MaxTasks
    /\ bPool \in 0..MaxBots
    /\ bMaxW \in 0..MaxWorkers
    /\ bpc = "begin"
    /\ bCreated = 0
    /\ bNext = 1
    /\ bQueue = <<>>
    /\ bRunning = {}
    /\ bLLM = {}
    /\ bOutcome = [i \in 1..bN |-> "none"]
    /\ bYielded = {}
    /\ bResults = <<>>

(***************************************************************************)
(* Site model: the site step of successive runs against the sites table    *)
(***************************************************************************)
\* largest number of runs (task rows) of one behaviour
MaxRuns == 3
\* number of distinct report folders
MaxFolders == 3

\* site names the LLM may return, as character sequences: <<1>> and <<2>> are
\* contained in <<1, 2>>, <<3>> is contained in none of the others.  None
\* holds a LIKE wildcard, and case does not vary.
SiteNames == { <<1>>, <<2>>, <<1, 2>>, <<3>> }

\* the runs that may be in their site step at the same time
SeqSlots == {1}

\* two tasks of a batch in their site step at the same time, each with its
\* own ExtractionWorkflow and database connection (scheduler.py line 102)
ParSlots == {1, 2}
\* number of tasks of the batch, and of report folders they are given
ParRuns == 2
ParFolders == 2

VARIABLES
    sTasks,      \* extraction_tasks: sTasks[t] = report_folder_path of task t
    sSites,      \* sites: sSites[i] = row with id i
    sRun,        \* per slot: the local state of the run in that slot
    sFolderSite  \* per folder: id of the row the last finished run on that
                 \* folder inserted or merged into (0: none yet)

siteVars == <<sTasks, sSites, sRun, sFolderSite>>

IdleRun == [pc |-> "idle", folder |-> 0, task |-> 0, name |-> <<>>,
            existing |-> 0, found |-> 0, site_id |-> 0,
            prior |-> 0, hadMatch |-> FALSE, rowsBefore |-> 0]

SetMax(S) == CHOOSE x \in S : \A y \in S : y <= x

\* a occurs in b as a contiguous run of characters: b LIKE '%' || a || '%'
IsSub(a, b) ==
    \E k \in 0..(Len(b) - Len(a)) : SubSeq(b, k + 1, k + Len(a)) = a

\* database_manager_v3.py lines 179-191: the newest site row whose task_id
\* is a task of this report folder, or 0 for None
get_site_by_report(folder) ==
    LET m == { i \in 1..Len(sSites) : sTasks[sSites[i].task_id] = folder }
    IN  IF m = {} THEN 0 ELSE SetMax(m)

\* database_manager_v3.py lines 193-213: the rows get_site_by_name may
\* return (LIMIT 1 without ORDER BY): the rows of that name if there are any,
\* otherwise the rows whose name contains it or is contained in it
get_site_by_name_exactOnly(name) ==
    { i \in 1..Len(sSites) : sSites[i].site_name = name }
get_site_by_name(name) ==
    LET exact == { i \in 1..Len(sSites) : sSites[i].site_name = name }
    IN  IF exact # {} THEN exact
        ELSE { i \in 1..Len(sSites) :
                 IsSub(name, sSites[i].site_name) \/ IsSub(sSites[i].site_name, name) }

\* database_manager_v3.py lines 249-271: every key of site_data that is a
\* column is written, task_id and site_name among them
update_site(id, task, name) ==
    [sSites EXCEPT ![id] = [task_id |-> task, site_name |-> name]]

\* database_manager_v3.py lines 215-247: a plain INSERT, the sites table has
\* no unique constraint on site_name
insert_site_ifAbsent(task, name) ==
    IF \E i \in 1..Len(sSites) : sSites[i].site_name = name
    THEN sSites
    ELSE Append(sSites, [task_id |-> task, site_name |-> name])
insert_site(task, name) ==
    Append(sSites, [task_id |-> task, site_name |-> name])

\* create_task (workflow.py lines 231-258) and the start of the run
RunStart(s, folder) ==
    /\ sRun[s].pc = "idle"
    /\ Len(sTasks) < MaxRuns
    /\ sTasks' = Append(sTasks, folder)
    /\ sRun' = [sRun EXCEPT ![s] =
                  [IdleRun EXCEPT !.pc = "lookup", !.folder = folder,
                                  !.task = Len(sTasks) + 1,
                                  !.prior = sFolderSite[folder]]]
    /\ UNCHANGED <<sSites, sFolderSite>>

\* workflow.py lines 119-124
LookupReport(s) ==
    /\ sRun[s].pc = "lookup"
    /\ LET e == get_site_by_report(sRun[s].folder) IN
       sRun' = [sRun EXCEPT ![s].existing = e,
                            ![s].pc = IF e # 0 THEN "update" ELSE "pre_extract"]
    /\ UNCHANGED <<sTasks, sSites, sFolderSite>>

\* workflow.py lines 126-129, _extract_site in update mode (lines 521-557):
\* the LLM names the site, or the call or the parsing raises
ExtractSiteUpdate(s) ==
    /\ sRun[s].pc = "update"
    /\ \/ \E n \in SiteNames :
            /\ sSites' = update_site(sRun[s].existing, sRun[s].task, n)
            /\ sRun' = [sRun EXCEPT ![s].name = n,
                                    ![s].site_id = sRun[s].existing,
                                    ![s].rowsBefore = Len(sSites),
                                    ![s].pc = "done"]
       \/ /\ sRun' = [sRun EXCEPT ![s].pc = "failed"]
          /\ UNCHANGED sSites
    /\ UNCHANGED <<sTasks, sFolderSite>>

\* workflow.py lines 136-137, _extract_site_data_only (lines 451-500)
PreExtract(s) ==
    /\ sRun[s].pc = "pre_extract"
    /\ \/ \E n \in SiteNames :
            sRun' = [sRun EXCEPT ![s].name = n, ![s].pc = "name_lookup"]
       \/ sRun' = [sRun EXCEPT ![s].pc = "failed"]
    /\ UNCHANGED <<sTasks, sSites, sFolderSite>>

\* workflow.py lines 139-144
NameLookup(s) ==
    /\ sRun[s].pc = "name_lookup"
    /\ LET cands == get_site_by_name(sRun[s].name)
           related == \E i \in 1..Len(sSites) :
                         \/ IsSub(sRun[s].name, sSites[i].site_name)
                         \/ IsSub(sSites[i].site_name, sRun[s].name)
       IN  \/ /\ cands = {}
              /\ sRun' = [sRun EXCEPT ![s].found = 0, ![s].hadMatch = related,
                                      ![s].rowsBefore = Len(sSites),
                                      ![s].pc = "insert"]
           \/ \E f \in cands :
                 sRun' = [sRun EXCEPT ![s].found = f, ![s].hadMatch = related,
                                      ![s].rowsBefore = Len(sSites),
                                      ![s].pc = "merge"]
    /\ UNCHANGED <<sTasks, sSites, sFolderSite>>

\* workflow.py lines 145-151 and 157-161
MergeSite(s) ==
    /\ sRun[s].pc = "merge"
    /\ sSites' = update_site(sRun[s].found, sRun[s].task, sRun[s].name)
    /\ sRun' = [sRun EXCEPT ![s].site_id = sRun[s].found, ![s].pc = "done"]
    /\ UNCHANGED <<sTasks, sFolderSite>>

\* workflow.py lines 152-161
InsertSite(s) ==
    /\ sRun[s].pc = "insert"
    /\ sSites' = insert_site(sRun[s].task, sRun[s].name)
    /\ sRun' = [sRun EXCEPT ![s].site_id = Len(sSites) + 1, ![s].pc = "done"]
    /\ UNCHANGED <<sTasks, sFolderSite>>

\* the run ends (the later steps of the task do not write to sites)
RunEnd(s) ==
    /\ sRun[s].pc \in {"done", "failed"}
    /\ sFolderSite' =
          IF sRun[s].pc = "done"
          THEN [sFolderSite EXCEPT ![sRun[s].folder] = sRun[s].site_id]
          ELSE sFolderSite
    /\ sRun' = [sRun EXCEPT ![s] = IdleRun]
    /\ UNCHANGED <<sTasks, sSites>>

InitSitesIdle ==
    /\ sTasks = <<>> /\ sSites = <<>>
    /\ sRun = [s \in SeqSlots |-> [IdleRun EXCEPT !.pc = "off"]]
    /\ sFolderSite = [f \in 1..MaxFolders |-> 0]

InitSites ==
    /\ sTasks = <<>>
    /\ sSites = <<>>
    /\ sRun = [s \in SeqSlots |-> IdleRun]
    /\ sFolderSite = [f \in 1..MaxFolders |-> 0]

InitSitesPar ==
    /\ sTasks = <<>>
    /\ sSites = <<>>
    /\ sRun = [s \in ParSlots |-> IdleRun]
    /\ sFolderSite = [f \in 1..MaxFolders |-> 0]

InitTaskIdle ==
    /\ status = "pending" /\ abortOffered = FALSE /\ pc = "off" /\ exc = "none"
    /\ templates = {} /\ layout = <<1>> /\ regLeft = 0 /\ siteDone = FALSE
    /\ siteId = 0 /\ pass = "none" /\ tomb = 0 /\ chunk = 0 /\ collected = {}
    /\ response = NoResponse /\ inflight = {} /\ calls = {} /\ logs = {}
    /\ files = {} /\ passDone = {}

(***************************************************************************)
(* Upsert model: DatabaseManagerV3.insert_pottery / insert_jade            *)
(***************************************************************************)
\* number of insert_pottery / insert_jade calls in a sequence
MaxCalls == 2
\* largest rowid another table of the connection may have reached
MaxOtherRowid == 3

VARIABLES
    uTable,      \* per table: the rows, uTable[k][i] = row with id i
    uLastRowid,  \* sqlite3_last_insert_rowid of the connection (0: none yet)
    uCalls,      \* number of calls made so far
    uCall,       \* the last call: [kind, data], or NoCall
    uBefore,     \* the called table as it was before the last call
    uRet         \* what the last call handed back: Returned(id), Raised, NoReturn

upsertVars == <<uTable, uLastRowid, uCalls, uCall, uBefore, uRet>>

ArtifactTables == {"pottery", "jade"}

\* values of artifact_code that are not NULL; the empty string is one
ArtifactCodes == {"", "M1:1", "M1:2"}

\* the dictionaries passed in, after _filter_valid_data: task_id, site_id and
\* artifact_code, and possibly one more column (val = 0: key not present)
UpsertData ==
    [task_id : {1, 2}, site_id : {1, 2}, artifact_code : ArtifactCodes,
     val : 0..2]

NoCall == [kind |-> "none"]

\* Python truthiness of site_id and of artifact_code (lines 409, 496)
TruthyInt(n) == n # 0

TruthyStr(c) == c # ""

\* what a call hands back to its caller
Returned(id) == [kind |-> "returned", id |-> id]

Raised == [kind |-> "raised"]

NoReturn == [kind |-> "none"]

\* SELECT id ... WHERE site_id = ? AND artifact_code = ?  (0: no row)
RowByKey(rows, site_id, code) ==
    LET m == { i \in 1..Len(rows) :
                 rows[i].site_id = site_id /\ rows[i].artifact_code = code }
    IN  IF m = {} THEN 0 ELSE CHOOSE i \in m : \A j \in m : i <= j

\* lines 424-425 / 512: the columns the UPDATE and the DO UPDATE clause set
update_fields(data) == IF data.val # 0 THEN {"val"} ELSE {}

\* lines 408-416: the id found by the SELECT, made only when both site_id
\* and artifact_code are truthy
existing_id(rows, data) ==
    IF TruthyInt(data.site_id) /\ TruthyStr(data.artifact_code)
    THEN RowByKey(rows, data.site_id, data.artifact_code)
    ELSE 0

\* database_manager_v3.py lines 399-473 (insert_pottery) and 487-557
\* (insert_jade, the same statements on jade_artifacts): the table, the
\* connection's last insert rowid and the returned value after the call.
\* The tables carry UNIQUE(site_id, artifact_code), which ON CONFLICT names.
\* With no column besides the keys both statements read "SET , updated_at"
\* and sqlite3 raises a syntax error.
upsert(rows, last, data) ==
    LET e == existing_id(rows, data)
        k == RowByKey(rows, data.site_id, data.artifact_code)
    IN  IF update_fields(data) = {}
        THEN [rows |-> rows, last |-> last, ret |-> Raised]
        ELSE IF e # 0
        THEN \* lines 421-433: UPDATE ... WHERE id = ?
             [rows |-> [rows EXCEPT ![e].val = data.val],
              last |-> last, ret |-> Returned(e)]
        ELSE IF k # 0
        THEN \* lines 446-452: the INSERT conflicts, DO UPDATE runs; no row
             \* is inserted, so cursor.lastrowid is the connection's last
             \* insert rowid, and the SELECT of lines 465-471 runs only if
             \* that is 0
             [rows |-> [rows EXCEPT ![k].val = data.val],
              last |-> last,
              ret |-> Returned(IF last # 0 THEN last ELSE k)]
        ELSE \* a row is inserted
             [rows |-> Append(rows, [task_id |-> data.task_id,
                                     site_id |-> data.site_id,
                                     artifact_code |-> data.artifact_code,
                                     val |-> data.val]),
              last |-> Len(rows) + 1, ret |-> Returned(Len(rows) + 1)]

insert_pottery(data) == upsert(uTable["pottery"], uLastRowid, data)

insert_jade(data) == upsert(uTable["jade"], uLastRowid, data)

\* one call of insert_pottery or insert_jade
UpsertCall(kind, data) ==
    /\ uCalls < MaxCalls
    /\ LET r == IF kind = "pottery" THEN insert_pottery(data)
                ELSE insert_jade(data)
       IN  /\ uTable' = [uTable EXCEPT ![kind] = r.rows]
           /\ uLastRowid' = r.last
           /\ uRet' = r.ret
    /\ uBefore' = uTable[kind]
    /\ uCall' = [kind |-> kind, data |-> data]
    /\ uCalls' = uCalls + 1

\* another INSERT on the same connection between two calls (add_log lines
\* 168-175, insert_triple): it moves the connection's last insert rowid
OtherInsert ==
    /\ uCalls < MaxCalls
    /\ \E r \in 1..MaxOtherRowid : uLastRowid' = r
    /\ uLastRowid' # uLastRowid
    /\ uCall' = NoCall
    /\ uRet' = NoReturn
    /\ UNCHANGED <<uTable, uCalls, uBefore>>

InitUpsert ==
    /\ uTable = [k \in ArtifactTables |-> <<>>]
    /\ uLastRowid = 0
    /\ uCalls = 0
    /\ uCall = NoCall
    /\ uBefore = <<>>
    /\ uRet = NoReturn

InitUpsertIdle ==
    /\ uTable = [k \in ArtifactTables |-> <<>>]
    /\ uLastRowid = 0
    /\ uCalls = MaxCalls
    /\ uCall = NoCall
    /\ uBefore = <<>>
    /\ uRet = NoReturn

(***************************************************************************)
(* Persistence model: the rows one task writes, and what follows each      *)
(* write (triples, image links)                                            *)
(***************************************************************************)
\* number of period rows, and of mapped artifacts per pass
MaxRows == 2

VARIABLES
    wpc,         \* position in execute_full_extraction
    wTemplates,  \* keys of the templates argument
    wExisting,   \* existing_site of line 119 is not None
    wFound,      \* found_site of line 142 is not None
    wSiteId,     \* site_id (0: None)
    wLeft,       \* rows still to go in the running loop
    wLast,       \* the mapped artifact the insert loop handled last
    wWritten,    \* rows inserted or updated: [kind, n, rec]
    wTripled,    \* rows _generate_triples was called for: <<kind, n>>
    wLinked,     \* rows link_artifact_to_images was called for: <<kind, n>>
    wLogs        \* WARNING rows of the insert loop: <<kind, n>>

persistVars == <<wpc, wTemplates, wExisting, wFound, wSiteId, wLeft, wLast,
                 wWritten, wTripled, wLinked, wLogs>>

\* field values as character sequences; "tao" is the character of pottery,
\* <<"tao", "qi">> the word for pottery ware.  A missing key, None and the
\* empty string are all <<>> (the code tests them by truthiness)
JadeTypes == { <<>>, <<"yu">>, <<"tao">>, <<"tao", "qi">>, <<"tao", "tu">>,
               <<"hui", "tao", "qi">> }

ClayTypes == { <<>>, <<"ni", "zhi">> }

Categories == { <<>>, <<"tao", "qi">>, <<"yu", "qi">>, <<"cai", "tao">> }

MappedArtifacts ==
    [jade_type : JadeTypes, clay_type : ClayTypes, category_level1 : Categories]

NoArtifact == [jade_type |-> <<>>, clay_type |-> <<>>, category_level1 |-> <<>>]

\* workflow.py lines 970-972: the pottery pass rejects the record
pottery_rejects(a) == a.jade_type # <<>>

\* workflow.py lines 982-997: the jade pass rejects the record
jade_rejects_clayOnly(a) == a.clay_type # <<>>
jade_rejects(a) ==
    \/ a.clay_type # <<>>
    \/ IsSub(<<"tao">>, a.category_level1)
    \/ a.jade_type = <<"tao">>
    \/ IsSub(<<"tao", "qi">>, a.jade_type)

rejects(kind, a) == IF kind = "pottery" THEN pottery_rejects(a) ELSE jade_rejects(a)

\* whether a site write is followed by _generate_triples: only _extract_site
\* calls it (line 560), and execute_full_extraction calls _extract_site only
\* in update mode (line 129); lines 151 and 154 write the row directly
site_triples(path) == path = "update"

Row(kind, n) == <<kind, n>>

\* workflow.py lines 119-163: the site step writes the site row
WriteSite ==
    /\ wpc = "site"
    /\ "site" \in wTemplates
    /\ LET path == IF wExisting THEN "update"
                   ELSE IF wFound THEN "merge" ELSE "insert"
       IN  /\ wWritten' = wWritten \cup {[kind |-> "site", n |-> 1, path |-> path]}
           /\ wTripled' = IF site_triples(path)
                          THEN wTripled \cup {Row("site", 1)} ELSE wTripled
    /\ wSiteId' = 1
    /\ wpc' = "period"
    /\ UNCHANGED <<wTemplates, wExisting, wFound, wLeft, wLast, wLinked, wLogs>>

\* workflow.py lines 164-178: no site template, a row is reused or not
SkipSite ==
    /\ wpc = "site"
    /\ "site" \notin wTemplates
    /\ wSiteId' = IF wExisting \/ wFound THEN 1 ELSE 0
    /\ wpc' = "period"
    /\ UNCHANGED <<wTemplates, wExisting, wFound, wLeft, wLast, wWritten,
                   wTripled, wLinked, wLogs>>

\* workflow.py line 182 and _extract_periods lines 642-648: the LLM returns
\* some periods
EnterPeriods ==
    /\ wpc = "period"
    /\ IF "period" \in wTemplates /\ wSiteId # 0
       THEN \E n \in 0..MaxRows : wLeft' = n /\ wpc' = "period_rows"
       ELSE wLeft' = 0 /\ wpc' = "pottery"
    /\ UNCHANGED <<wTemplates, wExisting, wFound, wSiteId, wLast, wWritten,
                   wTripled, wLinked, wLogs>>

\* _extract_periods lines 651-659: insert_period returns the new rowid, which
\* is not 0, and the triples follow
WritePeriod ==
    /\ wpc = "period_rows"
    /\ wLeft > 0
    /\ wWritten' = wWritten \cup {[kind |-> "period", n |-> wLeft, path |-> "insert"]}
    /\ wTripled' = wTripled \cup {Row("period", wLeft)}
    /\ wLeft' = wLeft - 1
    /\ UNCHANGED <<wpc, wTemplates, wExisting, wFound, wSiteId, wLast, wLinked,
                   wLogs>>

PeriodsDone ==
    /\ wpc = "period_rows"
    /\ wLeft = 0
    /\ wpc' = "pottery"
    /\ UNCHANGED <<wTemplates, wExisting, wFound, wSiteId, wLeft, wLast,
                   wWritten, wTripled, wLinked, wLogs>>

PassAfter(kind) == IF kind = "pottery" THEN "jade" ELSE "end"

RowsPc(kind) == IF kind = "pottery" THEN "pottery_rows" ELSE "jade_rows"

\* workflow.py lines 190, 200 and _extract_artifacts up to line 958: the pass
\* of this kind has some mapped artifacts to insert, or is not requested
EnterPass(kind) ==
    /\ wpc = kind
    /\ IF kind \in wTemplates
       THEN \E n \in 0..MaxRows : wLeft' = n /\ wpc' = RowsPc(kind)
       ELSE wLeft' = 0 /\ wpc' = PassAfter(kind)
    /\ wLast' = NoArtifact
    /\ UNCHANGED <<wTemplates, wExisting, wFound, wSiteId, wWritten,
                   wTripled, wLinked, wLogs>>

\* workflow.py lines 960-1055: one iteration of the insert loop
HandleArtifact(kind) ==
    /\ wpc = RowsPc(kind)
    /\ wLeft > 0
    /\ \E a \in MappedArtifacts :
          /\ wLast' = a
          /\ IF rejects(kind, a)
             THEN /\ wLogs' = wLogs \cup {Row(kind, wLeft)}
                  /\ UNCHANGED <<wWritten, wTripled, wLinked>>
             ELSE /\ wWritten' = wWritten \cup
                        {[kind |-> kind, n |-> wLeft, path |-> "upsert"]}
                  /\ wTripled' = wTripled \cup {Row(kind, wLeft)}
                  /\ wLinked' = wLinked \cup {Row(kind, wLeft)}
                  /\ UNCHANGED wLogs
    /\ wLeft' = wLeft - 1
    /\ UNCHANGED <<wpc, wTemplates, wExisting, wFound, wSiteId>>

PassDone(kind) ==
    /\ wpc = RowsPc(kind)
    /\ wLeft = 0
    /\ wpc' = PassAfter(kind)
    /\ UNCHANGED <<wTemplates, wExisting, wFound, wSiteId, wLeft, wLast,
                   wWritten, wTripled, wLinked, wLogs>>

InitPersist ==
    /\ wpc = "site"
    /\ wTemplates \in SUBSET Kinds
    /\ wExisting \in BOOLEAN
    /\ wFound \in BOOLEAN
    /\ wSiteId = 0
    /\ wLeft = 0
    /\ wLast = NoArtifact
    /\ wWritten = {}
    /\ wTripled = {}
    /\ wLinked = {}
    /\ wLogs = {}

InitPersistIdle ==
    /\ wpc = "off"
    /\ wTemplates = {}
    /\ wExisting = FALSE
    /\ wFound = FALSE
    /\ wSiteId = 0
    /\ wLeft = 0
    /\ wLast = NoArtifact
    /\ wWritten = {}
    /\ wTripled = {}
    /\ wLinked = {}
    /\ wLogs = {}

(***************************************************************************)
(* Merger model: ArtifactMerger.merge_artifacts                            *)
(***************************************************************************)
\* length of the list handed to merge_artifacts
MaxRecords == 2

VARIABLES
    artifact_list,   \* the argument of merge_artifacts
    merged,          \* what it returned (<<>> before the call)
    mpc              \* "call" before, "done" after merge_artifacts

mergerVars == <<artifact_list, merged, mpc>>

\* Python values: None, numbers, strings
None == [t |-> "none", v |-> 0]

Num(n) == [t |-> "num", v |-> n]

Str(c) == [t |-> "str", v |-> c]

key_field == "artifact_code"

MergeFields == {"artifact_code", "height", "description"}

\* the values each key may carry; a key may also be absent
FieldValues(f) ==
    IF f = "artifact_code" THEN {Str(""), Str("M1"), Str("M2")}
    ELSE IF f = "height" THEN {None, Num(1), Num(2), Str("x"), Str("y"), Str("xy")}
    ELSE {Str("p"), Str("q")}

\* the dictionaries: functions from some of the keys to values
MergeRecords ==
    UNION { { r \in [S -> UNION { FieldValues(f) : f \in MergeFields }] :
                \A f \in S : r[f] \in FieldValues(f) } : S \in SUBSET MergeFields }

\* dict.get(f)
Get(a, f) == IF f \in DOMAIN a THEN a[f] ELSE None

\* truthiness of a value ("if key:", line 41)
key_present_notNone(x) == x # None
key_present(x) == x # None /\ x # Str("") /\ x # Num(0)

Range(q) == { q[i] : i \in 1..Len(q) }

\* the elements of q, each once, in order of first appearance
RECURSIVE Dedup(_)
Dedup(q) ==
    IF q = <<>> THEN <<>>
    ELSE LET r == Dedup(SubSeq(q, 1, Len(q) - 1))
         IN  IF q[Len(q)] \in Range(r) THEN r ELSE Append(r, q[Len(q)])

\* str(v)
ToStr(x) == IF x.t = "num" THEN ToString(x.v) ELSE x.v

\* ' | '.join(str(v) for v in q)
RECURSIVE Join(_)
Join(q) ==
    IF Len(q) = 1 THEN ToStr(q[1])
    ELSE Join(SubSeq(q, 1, Len(q) - 1)) \o " | " \o ToStr(q[Len(q)])

\* max(q) of numbers; max(q, key=len) of strings: the first maximal element
MaxBy(q, size(_)) ==
    q[CHOOSE i \in 1..Len(q) :
         /\ \A j \in 1..Len(q) : size(q[j]) <= size(q[i])
         /\ \A j \in 1..(i - 1) : size(q[j]) < size(q[i])]

NumSize(x) == x.v

StrSize(x) == Len(x.v)

\* lines 115-116: the field name holds one of the descriptive keywords
Descriptive_never(field_name) == FALSE
Descriptive(field_name) == field_name \in {"description"}

\* artifact_merger.py lines 88-123
merge_field_values(field_name, values) ==
    LET unique_values == Dedup(values)
    IN  IF Len(unique_values) = 1 THEN unique_values[1]
        ELSE IF \A x \in Range(unique_values) : x.t = "num"
        THEN MaxBy(unique_values, NumSize)
        ELSE IF \A x \in Range(unique_values) : x.t = "str"
        THEN IF Descriptive(field_name)
             THEN Str(Join(unique_values))
             ELSE MaxBy(unique_values, StrSize)
        ELSE Str(Join(unique_values))

\* artifact_merger.py lines 55-86
merge_group(group) ==
    LET all_fields == UNION { DOMAIN group[i] : i \in 1..Len(group) }
    IN  [field \in all_fields |->
           LET values == SelectSeq([i \in 1..Len(group) |-> Get(group[i], field)],
                                   LAMBDA x : x # None)
           IN  IF values = <<>> THEN None
               ELSE IF Len(values) = 1 THEN values[1]
               ELSE merge_field_values(field, values)]

\* lines 38-42: the keys of grouped, in insertion order
grouped_keys(list) ==
    Dedup(SelectSeq([i \in 1..Len(list) |-> Get(list[i], key_field)], key_present))

\* lines 38-42: grouped[key]
grouped(list, key) == SelectSeq(list, LAMBDA a : Get(a, key_field) = key)

\* artifact_merger.py lines 21-53
merge_artifacts(list) ==
    LET keys == grouped_keys(list)
    IN  [n \in 1..Len(keys) |->
           LET group == grouped(list, keys[n])
           IN  IF Len(group) = 1 THEN group[1] ELSE merge_group(group)]

\* the call
MergeCall ==
    /\ mpc = "call"
    /\ merged' = merge_artifacts(artifact_list)
    /\ mpc' = "done"
    /\ UNCHANGED artifact_list

InitMerger ==
    /\ artifact_list \in UNION { [1..n -> MergeRecords] : n \in 0..MaxRecords }
    /\ merged = <<>>
    /\ mpc = "call"

InitMergerIdle ==
    /\ artifact_list = <<>>
    /\ merged = <<>>
    /\ mpc = "off"

(***************************************************************************)
(* Range expansion model: WorkflowManager._expand_artifact_ranges and its  *)
(* LLM fallback _expand_code_with_llm (src/workflow.py).  A code is the    *)
(* sequence of its characters; "," stands for the six list separators of   *)
(* complex_indicators, "M" for any other non-digit character.  The reply   *)
(* of the LLM is an input of the call: anything the service can answer.    *)
(***************************************************************************)
MaxCodeLen == 5

SpanLimit == 100

VARIABLES artifacts, expanded, xreplies, xpc

expandVars == <<artifacts, expanded, xreplies, xpc>>

CodeChars == {"M", "0", "1", "~", ","}

DigitChars == <<"0", "1", "2", "3", "4", "5", "6", "7", "8", "9">>

Codes == UNION {[1..n -> CodeChars] : n \in 0..MaxCodeLen}

\* artifact.get('artifact_code') of a record without the key
NoCode == <<"None">>

\* the records that follow the first one in the list
TailArtifacts ==
    {<<>>, <<[artifact_code |-> <<"0", "~", "1">>, subtype |-> "b"]>>}

ExpandInputs ==
    {<<[artifact_code |-> c, subtype |-> "a"]>> \o tail :
        c \in Codes \cup {NoCode}, tail \in TailArtifacts}

\* what the service answers: the call fails, the JSON is no list, or a list
\* whose items may be empty strings
LLMItems == {<<>>, <<"M", "1">>, <<"M", "2">>}

LLMReplies ==
    {[kind |-> "raise", items |-> <<>>], [kind |-> "other", items |-> <<>>]}
    \cup {[kind |-> "list", items |-> q] :
            q \in UNION {[1..n -> LLMItems] : n \in 0..2}}

NotConsulted == [kind |-> "none", items |-> <<>>]

IsDigit(c) == \E d \in 1..10 : DigitChars[d] = c

DigitValue(c) == (CHOOSE d \in 1..10 : DigitChars[d] = c) - 1

\* int(s) of a digit string
RECURSIVE IntOf(_)
IntOf(ds) ==
    IF ds = <<>> THEN 0
    ELSE IntOf(SubSeq(ds, 1, Len(ds) - 1)) * 10 + DigitValue(ds[Len(ds)])

\* f"{i}" of a natural number
RECURSIVE Decimal(_)
Decimal(n) ==
    IF n < 10 THEN <<DigitChars[n + 1]>>
    ELSE Decimal(n \div 10) \o <<DigitChars[(n % 10) + 1]>>

\* length of the match of (\d+)$, 0 when the string does not end in a digit
DigitRun(s) ==
    CHOOSE k \in 0..Len(s) :
        /\ \A i \in (Len(s) - k + 1)..Len(s) : IsDigit(s[i])
        /\ (k = Len(s) \/ ~IsDigit(s[Len(s) - k]))

Tildes(code) == {i \in 1..Len(code) : code[i] = "~"}

code_of(artifact) ==
    IF artifact.artifact_code = NoCode THEN <<>> ELSE artifact.artifact_code

\* the numbers the rule layer parses: <<prefix, start_num, end_num>> in a
\* one-element sequence, <<>> when the code is no <prefix><start>~<end>
parse_range(code) ==
    IF Cardinality(Tildes(code)) # 1 THEN <<>>
    ELSE LET t == CHOOSE i \in Tildes(code) : TRUE
             start_full == SubSeq(code, 1, t - 1)
             end_full == SubSeq(code, t + 1, Len(code))
             sk == DigitRun(start_full)
             ek == DigitRun(end_full)
         IN  IF sk = 0 \/ ek = 0 THEN <<>>
             ELSE <<[prefix |-> SubSeq(start_full, 1, Len(start_full) - sk),
                     start_num |-> IntOf(SubSeq(start_full,
                                     Len(start_full) - sk + 1, Len(start_full))),
                     end_num |-> IntOf(SubSeq(end_full,
                                     Len(end_full) - ek + 1, Len(end_full)))]>>

\* the codes of the rule layer, <<>> when is_expanded stays False
rule_codes(code) ==
    LET p == parse_range(code)
    IN  IF p = <<>> THEN <<>>
        ELSE IF p[1].start_num < p[1].end_num
                /\ p[1].end_num - p[1].start_num < SpanLimit
             THEN [i \in 1..(p[1].end_num - p[1].start_num + 1) |->
                      p[1].prefix \o Decimal(p[1].start_num + i - 1)]
             ELSE <<>>

\* the fallback condition of line 384, reached with is_expanded = False
consults_llm(code) ==
    rule_codes(code) = <<>>
    /\ ((\E i \in 1..Len(code) : code[i] = ",") \/ Tildes(code) # {})

expand_code_with_llm(reply) ==
    IF reply.kind = "list"
    THEN SelectSeq(reply.items, LAMBDA item : item # <<>>)
    ELSE <<>>

WithCodes(artifact, codes) ==
    [i \in 1..Len(codes) |-> [artifact EXCEPT !.artifact_code = codes[i]]]

expand_one_dropUnanswered(artifact, reply) ==
    LET code == code_of(artifact)
    IN  IF rule_codes(code) # <<>> THEN WithCodes(artifact, rule_codes(code))
        ELSE IF consults_llm(code)
             THEN WithCodes(artifact, expand_code_with_llm(reply))
             ELSE <<artifact>>

\* one pass of the loop body: the records appended for one input record
expand_one(artifact, reply) ==
    LET code == code_of(artifact)
    IN  IF rule_codes(code) # <<>> THEN WithCodes(artifact, rule_codes(code))
        ELSE IF consults_llm(code) /\ expand_code_with_llm(reply) # <<>>
             THEN WithCodes(artifact, expand_code_with_llm(reply))
             ELSE <<artifact>>

RECURSIVE expand_artifact_ranges(_, _)
expand_artifact_ranges(list, replies) ==
    IF list = <<>> THEN <<>>
    ELSE expand_one(Head(list), Head(replies))
         \o expand_artifact_ranges(Tail(list), Tail(replies))

RepliesFor(artifact) ==
    IF consults_llm(code_of(artifact)) THEN LLMReplies ELSE {NotConsulted}

ExpandCall ==
    /\ xpc = "ready"
    /\ \E replies \in [1..Len(artifacts) -> LLMReplies \cup {NotConsulted}] :
          /\ \A i \in 1..Len(artifacts) : replies[i] \in RepliesFor(artifacts[i])
          /\ expanded' = expand_artifact_ranges(artifacts, replies)
          /\ xreplies' = replies
    /\ xpc' = "done"
    /\ UNCHANGED artifacts

InitExpand ==
    /\ artifacts \in ExpandInputs
    /\ expanded = <<>>
    /\ xreplies = <<>>
    /\ xpc = "ready"

InitExpandIdle ==
    /\ artifacts = <<>>
    /\ expanded = <<>>
    /\ xreplies = <<>>
    /\ xpc = "off"

(***************************************************************************)
(* Text chunking model: WorkflowManager._split_large_text (src/workflow.py)*)
(* A text is the sequence of its characters: "\n", the full stop "。"      *)
(* (written "o") and "x" for any other character.  Positions are the       *)
(* 0-based indices of the code; chunk_size and overlap are the arguments,  *)
(* scaled down from 3000/300 (line 758) and 2000/200 (the defaults).       *)
(***************************************************************************)
MaxTextLen == 6

MaxChunkSize == 3

VARIABLES text, chunk_size, overlap, cuts, spc

splitVars == <<text, chunk_size, overlap, cuts, spc>>

TextChars == {"x", "\n", "o"}

Texts == UNION {[1..n -> TextChars] : n \in 0..MaxTextLen}

Larger(a, b) == IF a >= b THEN a ELSE b

\* text.rfind(ch, lo, hi): the last index in [lo, hi) holding ch, or -1
rfind(t, ch, lo, hi) ==
    LET found == {i \in lo..(hi - 1) : i < Len(t) /\ t[i + 1] = ch}
    IN  IF found = {} THEN -1
        ELSE CHOOSE i \in found : \A j \in found : j <= i

next_start_pastEnd(start, actual_end, ov, cut) ==
    Larger(start + 1, actual_end - ov + 1)

\* line 707: the start of the next chunk
next_start(start, actual_end, ov, cut) == Larger(start + 1, actual_end - ov)

\* the while loop of lines 673-709 from position start: one record per chunk
\* appended, with its slice bounds and how its end was chosen
RECURSIVE split_loop(_, _, _, _)
split_loop(t, size, ov, start) ==
    IF ~(start < Len(t)) THEN <<>>
    ELSE LET end == start + size
         IN  IF end >= Len(t)
             THEN <<[from |-> start, to |-> Len(t), cut |-> "rest"]>>
             ELSE LET search_start == Larger(start, end - ov)
                      last_newline == rfind(t, "\n", search_start, end)
                      last_period == rfind(t, "o", search_start, end)
                      cut == IF last_newline # -1 THEN "newline"
                             ELSE IF last_period # -1 THEN "period"
                             ELSE "hard"
                      actual_end == IF last_newline # -1 THEN last_newline + 1
                                    ELSE IF last_period # -1 THEN last_period + 1
                                    ELSE end
                 IN  <<[from |-> start, to |-> actual_end, cut |-> cut]>>
                     \o split_loop(t, size, ov,
                                   next_start(start, actual_end, ov, cut))

split_large_text(t, size, ov) ==
    IF Len(t) <= size THEN <<[from |-> 0, to |-> Len(t), cut |-> "whole"]>>
    ELSE split_loop(t, size, ov, 0)

SplitCall ==
    /\ spc = "ready"
    /\ cuts' = split_large_text(text, chunk_size, overlap)
    /\ spc' = "done"
    /\ UNCHANGED <<text, chunk_size, overlap>>

InitSplit ==
    /\ text \in Texts
    /\ chunk_size \in 2..MaxChunkSize
    /\ overlap \in 0..(chunk_size - 1)
    /\ cuts = <<>>
    /\ spc = "ready"

\* every argument the signature admits: chunk_size >= 1, overlap >= 0, also
\* an overlap as large as the chunk or larger
InitSplitAny ==
    /\ text \in Texts
    /\ chunk_size \in 1..MaxChunkSize
    /\ overlap \in 0..(MaxChunkSize + 1)
    /\ cuts = <<>>
    /\ spc = "ready"

InitSplitIdle ==
    /\ text = <<>>
    /\ chunk_size = 0
    /\ overlap = 0
    /\ cuts = <<>>
    /\ spc = "off"

(***************************************************************************)
(* Tomb segmentation model: split_by_tomb (src/content_extractor.py).      *)
(* The text is the sequence of its lines (full_text.split('\n')).  A line  *)
(* is described by the first pattern that matches it (0: none) and the     *)
(* number it captures; body is the line's text, "" for a blank line.       *)
(***************************************************************************)
MaxLines == 4

VARIABLES full_text, result, tpc

tombVars == <<full_text, result, tpc>>

\* "# 第一节 一号墓", "## M1 墓葬", "## M2", "##一号墓", and three lines that
\* match no pattern
TombLines ==
    {[pattern |-> 1, group |-> "yi", body |-> "h"],
     [pattern |-> 2, group |-> "1", body |-> "h"],
     [pattern |-> 2, group |-> "2", body |-> "h"],
     [pattern |-> 3, group |-> "yi", body |-> "h"],
     [pattern |-> 0, group |-> "", body |-> ""],
     [pattern |-> 0, group |-> "", body |-> "a"],
     [pattern |-> 0, group |-> "", body |-> "b"]}

TombTexts == UNION {[1..n -> TombLines] : n \in 1..MaxLines}

\* lines 44-47: the key of the segment a heading opens ("yi" is the numeral
\* word of the heading, "haomu" the suffix 号墓)
tomb_name(line) ==
    IF line.pattern = 2 THEN <<"M", line.group>> ELSE <<line.group, "haomu">>

\* '\n'.join(current_content).strip(), as the lines that remain
RECURSIVE StripLines(_)
StripLines(content) ==
    IF content = <<>> THEN <<>>
    ELSE IF Head(content) = "" THEN StripLines(Tail(content))
    ELSE IF content[Len(content)] = ""
         THEN StripLines(SubSeq(content, 1, Len(content) - 1))
    ELSE content

\* result[key] = value on a dict kept as the sequence of its items
DictSet(items, key, value) ==
    IF \E i \in 1..Len(items) : items[i].name = key
    THEN [i \in 1..Len(items) |->
            IF items[i].name = key
            THEN [name |-> key, content |-> value] ELSE items[i]]
    ELSE items \o <<[name |-> key, content |-> value]>>

NoTomb == <<>>

\* the loop of lines 32-52 over the remaining lines
RECURSIVE scan_lines(_, _, _, _)
scan_lines(lines, res, current_tomb, current_content) ==
    IF lines = <<>>
    THEN \* lines 55-56
         IF current_tomb # NoTomb /\ current_content # <<>>
         THEN DictSet(res, current_tomb, StripLines(current_content))
         ELSE res
    ELSE LET line == Head(lines)
         IN  IF line.pattern # 0
             THEN scan_lines(Tail(lines),
                    IF current_tomb # NoTomb
                    THEN DictSet(res, current_tomb, StripLines(current_content))
                    ELSE res,
                    tomb_name(line),
                    IF current_tomb # NoTomb THEN <<>> ELSE current_content)
             ELSE scan_lines(Tail(lines), res, current_tomb,
                    IF current_tomb # NoTomb
                    THEN Append(current_content, line.body)
                    ELSE current_content)

split_by_tomb(t) == scan_lines(t, <<>>, NoTomb, <<>>)

SplitByTombCall ==
    /\ tpc = "ready"
    /\ result' = split_by_tomb(full_text)
    /\ tpc' = "done"
    /\ UNCHANGED full_text

InitTomb ==
    /\ full_text \in TombTexts
    /\ result = <<>>
    /\ tpc = "ready"

InitTombIdle ==
    /\ full_text = <<>>
    /\ result = <<>>
    /\ tpc = "off"

(***************************************************************************)
(* Checkpoint observer of the task model: a history variable recording     *)
(* whether _check_cancellation ran since the task's last LLM call returned *)
(***************************************************************************)
VARIABLES checkpointed

ckVars == <<checkpointed>>

\* the positions whose step begins with self._check_cancellation(task_id):
\* workflow.py lines 94, 99, 111, 118, 183, 191, 201, 752 and 764
CheckpointPcs ==
    {"chk_start", "register", "chk_index", "chk_site", "chk_period",
     "chk_pottery", "chk_jade", "art_tomb", "art_chunk"}

WorkerStep == <<pc, regLeft>>' # <<pc, regLeft>>

CallIssued == inflight' # inflight /\ inflight \subseteq inflight'

CallReturned == inflight' # inflight /\ inflight' \subseteq inflight

Observe ==
    checkpointed' = IF pc \in CheckpointPcs /\ WorkerStep THEN TRUE
                    ELSE IF CallReturned THEN FALSE
                    ELSE checkpointed

InitCkIdle == checkpointed = FALSE

(***************************************************************************)
(* LLM configuration model: self.llm_config of one WorkflowManager and the *)
(* temperature of the calls made with it.  A dict is an object of the heap *)
(* and a dict-valued entry is a reference to one; temperatures are in      *)
(* tenths (1 is 0.1), NoTemperature an absent key.                         *)
(***************************************************************************)
MaxLLMCalls == 5

DefaultTemperature == 7

ExpansionTemperature == 1

VARIABLES heap, llm_config, callLog

configVars == <<heap, llm_config, callLog>>

NoTemperature == -1

ConfiguredTemperatures == {NoTemperature, 0, 1, 7, 10}

\* dict.copy(): a new top-level dict whose entries hold the same references
dict_copy(d) == d

\* config['llm'].get('temperature', 0.7) of automated_extractor.py
temperature_of(h, config) ==
    IF h[config.llm].temperature = NoTemperature
    THEN DefaultTemperature ELSE h[config.llm].temperature

\* call_llm_api(prompt, self.llm_config) of a site, period or chunk extraction
ExtractionLLMCall ==
    /\ Len(callLog) < MaxLLMCalls
    /\ callLog' = Append(callLog, [kind |-> "extraction",
                                   temperature |-> temperature_of(heap, llm_config)])
    /\ UNCHANGED <<heap, llm_config>>

\* lines 317-321 of _expand_code_with_llm
ExpansionLLMCall ==
    /\ Len(callLog) < MaxLLMCalls
    /\ LET config == dict_copy(llm_config)
           h == [heap EXCEPT ![config.llm].temperature = ExpansionTemperature]
       IN  /\ heap' = h
           /\ callLog' = Append(callLog, [kind |-> "expansion",
                                          temperature |-> temperature_of(h, config)])
    /\ UNCHANGED llm_config

InitConfig ==
    /\ \E t \in ConfiguredTemperatures : heap = <<[temperature |-> t]>>
    /\ llm_config = [llm |-> 1]
    /\ callLog = <<>>

InitConfigIdle ==
    /\ heap = <<>>
    /\ llm_config = [llm |-> 0]
    /\ callLog = <<>>

(***************************************************************************)
(* Statistics of the persistence model: the locals pottery_count and       *)
(* jade_count of execute_full_extraction, which update_task_statistics     *)
(* writes as total_pottery and total_jade (workflow.py lines 189-214)      *)
(***************************************************************************)
VARIABLES counts

statsVars == <<counts>>

\* lines 193 and 203: the count is what _extract_artifacts returns, which is
\* len(merged_artifacts) (line 1061), the length of the list the insert loop
\* goes through
CountPass ==
    counts' = IF wpc \in ArtifactTables /\ wpc' = RowsPc(wpc)
              THEN [counts EXCEPT ![wpc] = wLeft']
              ELSE counts

\* lines 189 and 199
InitStats == counts = [k \in ArtifactTables |-> 0]

(***************************************************************************)
(* Field mapping model: FieldMapper (src/field_mapper.py) over the mapping *)
(* of TemplateAnalyzer.get_chinese_to_english_mapping.  A dict is the      *)
(* sequence of its items in insertion order.  "kj" and "dj" stand for the  *)
(* display names 口径 and 底径 (both stored as diameter), "ys" for 颜色    *)
(* (color), "dpbm" for 单品编码, the display name of artifact_code.        *)
(***************************************************************************)
MaxFields == 2

MaxKeys == 2

VARIABLES feature_fields, fmRecord, fmMapped, fpc

mapperVars == <<feature_fields, fmRecord, fmMapped, fpc>>

FeatureNames == {"kj", "dj", "ys"}

RecordKeys == FeatureNames \cup {"diameter", "color", "note"}

\* template_analyzer.py lines 181-256: the predefined table
to_db_field_name(chinese_name) ==
    IF chinese_name \in {"kj", "dj"} THEN "diameter" ELSE "color"

DictKeys(items) == {items[i].name : i \in 1..Len(items)}

DictGet(items, key, default) ==
    IF key \in DictKeys(items)
    THEN (CHOOSE it \in Range(items) : it.name = key).content
    ELSE default

\* lines 372-390: mapping[db_name] = field, over the base entries
RECURSIVE en_to_cn_mapping(_, _)
en_to_cn_mapping(mapping, fields) ==
    IF fields = <<>> THEN mapping
    ELSE en_to_cn_mapping(
            DictSet(mapping, to_db_field_name(Head(fields)), Head(fields)),
            Tail(fields))

get_chinese_to_english_mapping(fields) ==
    en_to_cn_mapping(<<[name |-> "artifact_code", content |-> "dpbm"]>>, fields)

\* field_mapper.py line 27: {v: k for k, v in en_to_cn.items() if v}
RECURSIVE invert(_, _)
invert(acc, items) ==
    IF items = <<>> THEN acc
    ELSE invert(DictSet(acc, Head(items).content, Head(items).name), Tail(items))

cn_to_en(fields) == invert(<<>>, get_chinese_to_english_mapping(fields))

\* lines 39-46
RECURSIVE map_fields_loop(_, _, _)
map_fields_loop(mapped, table, items) ==
    IF items = <<>> THEN mapped
    ELSE map_fields_loop(
            DictSet(mapped, DictGet(table, Head(items).name, Head(items).name),
                    Head(items).content),
            table, Tail(items))

map_artifact_fields(fields, artifact) ==
    map_fields_loop(<<>>, cn_to_en(fields), artifact)

FieldLists == UNION {[1..n -> FeatureNames] : n \in 0..MaxFields}

FieldRecords ==
    {r \in UNION {[1..n -> [name : RecordKeys, content : {1, 2}]] : n \in 0..MaxKeys} :
        \A i, j \in 1..Len(r) : r[i].name = r[j].name => i = j}

MapFieldsCall ==
    /\ fpc = "ready"
    /\ fmMapped' = map_artifact_fields(feature_fields, fmRecord)
    /\ fpc' = "done"
    /\ UNCHANGED <<feature_fields, fmRecord>>

InitMapper ==
    /\ feature_fields \in FieldLists
    /\ fmRecord \in FieldRecords
    /\ fmMapped = <<>>
    /\ fpc = "ready"

InitMapperIdle ==
    /\ feature_fields = <<>>
    /\ fmRecord = <<>>
    /\ fmMapped = <<>>
    /\ fpc = "off"

(***************************************************************************)
(* Triples model: ArtifactExtractionWorkflow._generate_triples             *)
(* (workflow.py 403-449).  Field names are sequences of characters so that *)
(* clean_string is computed, not assumed; "B" stands for an upper-case     *)
(* letter and " " for any whitespace.  The mapping table is the result of  *)
(* the SELECT on sys_template_mappings, which is taken to succeed.         *)
(***************************************************************************)
MaxKeyLen == 2

VARIABLES mappings, tData, triples, gpc

triplesVars == <<mappings, tData, triples, gpc>>

KeyChars == {"a", "B", " "}

KeyNames == UNION { [1..n -> KeyChars] : n \in 1..MaxKeyLen }

Bool(b) == [t |-> "bool", v |-> IF b THEN 1 ELSE 0]

\* the values a record field can hold: None, 0, 5, False, True, '' and 'x'
TripleValues == {None, Num(0), Num(5), Bool(FALSE), Bool(TRUE), Str(""), Str("x")}

\* Python's bool(value)
truthy(value) ==
  CASE value.t = "none" -> FALSE
    [] value.t = "num"  -> value.v # 0
    [] value.t = "bool" -> value.v = 1
    [] OTHER            -> value.v # ""

\* Python's str(value)
py_str(value) ==
  CASE value.t = "none" -> "None"
    [] value.t = "num"  -> ToString(value.v)
    [] value.t = "bool" -> IF value.v = 1 THEN "True" ELSE "False"
    [] OTHER            -> value.v

lower(c) == IF c = "B" THEN "b" ELSE c

\* re.sub(r'\s+', '', str(s)).lower()
RECURSIVE clean_string(_)
clean_string(s) ==
  IF s = <<>> THEN <<>>
  ELSE IF Head(s) = " " THEN clean_string(Tail(s))
       ELSE <<lower(Head(s))>> \o clean_string(Tail(s))

NoMatch == [mid |-> 0, prop |-> ""]

\* map_lookup.get(k) after the loop over the first n rows; a later row
\* overwrites an earlier one with the same cleaned name, and within a row
\* the storage key is written after the display name
RECURSIVE map_lookup(_, _, _)
map_lookup(rows, n, k) ==
  IF n = 0 THEN NoMatch
  ELSE LET r == rows[n] IN
       IF r.name_en # <<>> /\ clean_string(r.name_en) = k
         THEN [mid |-> r.id, prop |-> r.prop]
       ELSE IF r.name_cn # <<>> /\ clean_string(r.name_cn) = k
         THEN [mid |-> r.id, prop |-> r.prop]
       ELSE map_lookup(rows, n - 1, k)

\* the loop over data.items(): items is the dict in insertion order
RECURSIVE generate_triples(_, _)
generate_triples(rows, items) ==
  IF items = <<>> THEN <<>>
  ELSE LET it    == Head(items)
           match == map_lookup(rows, Len(rows), clean_string(it.key))
           rest  == generate_triples(rows, Tail(items))
       IN IF ~truthy(it.value) THEN rest
          ELSE IF match # NoMatch /\ match.prop # ""
            THEN <<[mapping_id |-> match.mid, predicate |-> match.prop,
                    object_value |-> py_str(it.value)]>> \o rest
          ELSE rest

Relations == {"", "P2"}

\* one or two registered mappings with distinct names; the second one has
\* no storage key
MappingTables ==
  { <<[name_cn |-> <<"a">>, name_en |-> <<"a", "B">>, id |-> 1, prop |-> p]>>
      : p \in Relations }
  \cup
  { <<[name_cn |-> <<"a">>, name_en |-> <<"a", "B">>, id |-> 1, prop |-> p],
      [name_cn |-> <<"B">>, name_en |-> <<>>, id |-> 2, prop |-> q]>>
      : p \in Relations, q \in Relations }

DataItems == [key : KeyNames, value : TripleValues]

\* a dict of at most two fields: keys are distinct
DataDicts ==
  {<<>>} \cup { <<i>> : i \in DataItems }
  \cup { d \in { <<i, j>> : i \in DataItems, j \in DataItems } : d[1].key # d[2].key }

GenerateTriplesCall ==
  /\ gpc = "ready"
  /\ triples' = generate_triples(mappings, tData)
  /\ gpc' = "done"
  /\ UNCHANGED <<mappings, tData>>

InitTriples ==
  /\ mappings \in MappingTables
  /\ tData \in DataDicts
  /\ triples = <<>>
  /\ gpc = "ready"

InitTriplesIdle ==
  /\ mappings = <<>>
  /\ tData = <<>>
  /\ triples = <<>>
  /\ gpc = "idle"

(***************************************************************************)
(* Linker model: ImageLinker.link_artifact_to_images (image_linker.py).    *)
(* The content list is a sequence of text and image items.  A text item is *)
(* described by what the strategies look for in it: whether it contains    *)
(* the artifact code, how many of the artifact's descriptive keywords it   *)
(* contains, whether it names the tomb, and which images its figure        *)
(* references designate.  An image reference designates the image whose    *)
(* identifier contains it; captions are not modelled.  Artifact codes have *)
(* the form M<digits>:<n>, so a text with the artifact code also names the *)
(* tomb.  Confidences are in hundredths.                                   *)
(***************************************************************************)
MaxItems == 3

KeyFields == 7

CodeDistance == 5

TextDistance == 3

TombDistance == 10

NoDistance == 999

LLMConfidence == 98

RefConfidence == 95

CodeConfidence == 90

TombConfidence == 40

VARIABLES content_list, artifact, all_images, linked_images, lpc

linkerVars == <<content_list, artifact, all_images, linked_images, lpc>>

\* 0 is an image item without an identifier
NoHash == 0

Hashes == {1, 2}

ImageItems == { [type |-> "image", hash |-> h, code |-> FALSE, hits |-> 0,
                 tomb |-> FALSE, figs |-> {}] : h \in Hashes \cup {NoHash} }

\* the texts of a report about an artifact with k descriptive keywords
TextItems(k) ==
  { [type |-> "text", hash |-> NoHash, code |-> TRUE, hits |-> n,
     tomb |-> TRUE, figs |-> f] : n \in {0, k}, f \in {{}, {1}} }
  \cup
  { [type |-> "text", hash |-> NoHash, code |-> FALSE, hits |-> n,
     tomb |-> t, figs |-> {}] : n \in {0, k}, t \in BOOLEAN }

ContentLists(k) ==
  UNION { [1..n -> ImageItems \cup TextItems(k)] : n \in 0..MaxItems }

\* the image_references of an artifact
RefLists == {<<>>, <<1>>, <<2, 1>>}

Max(a, b) == IF a > b THEN a ELSE b

Entry(h, c, m, d) ==
  [image_hash |-> h, confidence |-> c, match_method |-> m, distance_from_text |-> d]

\* _find_nearby_images followed by the caller's loop that stamps confidence
\* and method: the images at positions i..hi around the text at ti
RECURSIVE find_nearby_images(_, _, _, _, _, _)
find_nearby_images(cl, ti, i, hi, c, m) ==
  IF i > hi THEN <<>>
  ELSE (IF cl[i].type = "image" /\ cl[i].hash # NoHash
          THEN <<Entry(cl[i].hash, c, m, IF i > ti THEN i - ti ELSE ti - i)>>
          ELSE <<>>)
       \o find_nearby_images(cl, ti, i + 1, hi, c, m)

nearby(cl, ti, distance, c, m) ==
  find_nearby_images(cl, ti, Max(1, ti - distance), Min(Len(cl), ti + distance), c, m)

\* the images of the content list, from position i on, that ref designates
RECURSIVE images_matching(_, _, _, _, _)
images_matching(cl, i, refs, c, m) ==
  IF i > Len(cl) THEN <<>>
  ELSE (IF cl[i].type = "image" /\ cl[i].hash # NoHash /\ cl[i].hash \in refs
          THEN <<Entry(cl[i].hash, c, m, NoDistance)>>
          ELSE <<>>)
       \o images_matching(cl, i + 1, refs, c, m)

\* strategy 5: for ref in refs: for item in content_list
RECURSIVE find_images_by_llm_references(_, _)
find_images_by_llm_references(cl, refs) ==
  IF refs = <<>> THEN <<>>
  ELSE images_matching(cl, 1, {Head(refs)}, LLMConfidence, "llm_reference")
       \o find_images_by_llm_references(cl, Tail(refs))

\* strategy 4: the figure references of the texts that contain the code
found_refs(cl) ==
  UNION { cl[i].figs : i \in { j \in 1..Len(cl) : cl[j].type = "text" /\ cl[j].code } }

find_images_by_explicit_reference(cl) ==
  images_matching(cl, 1, found_refs(cl), RefConfidence, "explicit_reference")

\* strategy 1
RECURSIVE find_images_by_artifact_code(_, _)
find_images_by_artifact_code(cl, i) ==
  IF i > Len(cl) THEN <<>>
  ELSE (IF cl[i].type = "text" /\ cl[i].code
          THEN nearby(cl, i, CodeDistance, CodeConfidence, "artifact_code")
          ELSE <<>>)
       \o find_images_by_artifact_code(cl, i + 1)

\* sum(1 for kw in keywords if kw in text): the artifact code is a keyword
match_count(item) == item.hits + (IF item.code THEN 1 ELSE 0)

keyword_confidence(mc) == 60 + mc * 10

\* strategy 2
RECURSIVE find_images_by_text_content(_, _)
find_images_by_text_content(cl, i) ==
  IF i > Len(cl) THEN <<>>
  ELSE (IF cl[i].type = "text" /\ match_count(cl[i]) >= 2
          THEN nearby(cl, i, TextDistance,
                      keyword_confidence(match_count(cl[i])), "text_content")
          ELSE <<>>)
       \o find_images_by_text_content(cl, i + 1)

\* strategy 3
RECURSIVE find_images_by_tomb(_, _)
find_images_by_tomb(cl, i) ==
  IF i > Len(cl) THEN <<>>
  ELSE (IF cl[i].type = "text" /\ cl[i].tomb
          THEN nearby(cl, i, TombDistance, TombConfidence, "tomb_context")
          ELSE <<>>)
       \o find_images_by_tomb(cl, i + 1)

\* the first loop of _merge_and_deduplicate over the concatenated lists
RECURSIVE dedup_images(_, _)
dedup_images(q, seen) ==
  IF q = <<>> THEN <<>>
  ELSE IF Head(q).image_hash # NoHash /\ Head(q).image_hash \notin seen
    THEN <<Head(q)>> \o dedup_images(Tail(q), seen \cup {Head(q).image_hash})
    ELSE dedup_images(Tail(q), seen)

\* the sort key (-confidence, distance_from_text)
key_before(a, b) ==
  \/ a.confidence > b.confidence
  \/ a.confidence = b.confidence /\ a.distance_from_text < b.distance_from_text

\* list.sort is stable: e goes behind every entry that is not after it
RECURSIVE insert_sorted(_, _)
insert_sorted(q, e) ==
  IF q = <<>> THEN <<e>>
  ELSE IF key_before(e, Head(q)) THEN <<e>> \o q
       ELSE <<Head(q)>> \o insert_sorted(Tail(q), e)

RECURSIVE stable_sort(_, _)
stable_sort(q, n) ==
  IF n = 0 THEN <<>> ELSE insert_sorted(stable_sort(q, n - 1), q[n])

merge_and_deduplicate(lists) ==
  LET uniq == dedup_images(lists, {}) IN stable_sort(uniq, Len(uniq))

\* the candidates in priority order
candidates(cl, art) ==
  find_images_by_llm_references(cl, art.image_references)
  \o find_images_by_explicit_reference(cl)
  \o find_images_by_artifact_code(cl, 1)
  \o find_images_by_text_content(cl, 1)
  \o find_images_by_tomb(cl, 1)

\* _determine_image_role for an image without caption
determine_image_role(img, index) ==
  CASE img.match_method \in {"llm_reference", "explicit_reference"} -> "photo"
    [] img.match_method = "artifact_code" -> IF index = 0 THEN "photo" ELSE "drawing"
    [] img.match_method = "tomb_context" -> "context"
    [] OTHER -> IF index = 0 THEN "photo" ELSE "related"

LinkArtifactToImages ==
  /\ lpc = "ready"
  /\ LET ranked == merge_and_deduplicate(candidates(content_list, artifact)) IN
       /\ all_images' = ranked
       /\ linked_images' =
            [i \in 1..Len(ranked) |->
               [image_hash |-> ranked[i].image_hash,
                image_role |-> determine_image_role(ranked[i], i - 1),
                confidence |-> ranked[i].confidence,
                display_order |-> i - 1]]
  /\ lpc' = "done"
  /\ UNCHANGED <<content_list, artifact>>

InitLinker ==
  /\ \E k \in 0..KeyFields :
       /\ artifact \in [image_references : RefLists, keywords : {k}]
       /\ content_list \in ContentLists(k)
  /\ all_images = <<>>
  /\ linked_images = <<>>
  /\ lpc = "ready"

InitLinkerIdle ==
  /\ content_list = <<>>
  /\ artifact = [image_references |-> <<>>, keywords |-> 0]
  /\ all_images = <<>>
  /\ linked_images = <<>>
  /\ lpc = "idle"

(***************************************************************************)
(* Specifications                                                          *)
(***************************************************************************)
vars == <<taskVars, batchVars, siteVars, upsertVars, persistVars, mergerVars, expandVars, splitVars, tombVars, ckVars, configVars, statsVars, mapperVars, triplesVars, linkerVars>>

\* what each specification leaves alone
nonTask == <<batchVars, siteVars, upsertVars, persistVars, mergerVars, expandVars, splitVars, tombVars, ckVars, configVars, statsVars, mapperVars, triplesVars, linkerVars>>
nonTaskCk == <<batchVars, siteVars, upsertVars, persistVars, mergerVars, expandVars, splitVars, tombVars, configVars, statsVars, mapperVars, triplesVars, linkerVars>>
nonBatch == <<taskVars, siteVars, upsertVars, persistVars, mergerVars, expandVars, splitVars, tombVars, ckVars, configVars, statsVars, mapperVars, triplesVars, linkerVars>>
nonSites == <<taskVars, batchVars, upsertVars, persistVars, mergerVars, expandVars, splitVars, tombVars, ckVars, configVars, statsVars, mapperVars, triplesVars, linkerVars>>
nonUpsert == <<taskVars, batchVars, siteVars, persistVars, mergerVars, expandVars, splitVars, tombVars, ckVars, configVars, statsVars, mapperVars, triplesVars, linkerVars>>
nonPersist == <<taskVars, batchVars, siteVars, upsertVars, mergerVars, expandVars, splitVars, tombVars, ckVars, configVars, statsVars, mapperVars, triplesVars, linkerVars>>
nonPersistStats == <<taskVars, batchVars, siteVars, upsertVars, mergerVars, expandVars, splitVars, tombVars, ckVars, configVars, mapperVars, triplesVars, linkerVars>>
nonMerger == <<taskVars, batchVars, siteVars, upsertVars, persistVars, expandVars, splitVars, tombVars, ckVars, configVars, statsVars, mapperVars, triplesVars, linkerVars>>
nonExpand == <<taskVars, batchVars, siteVars, upsertVars, persistVars, mergerVars, splitVars, tombVars, ckVars, configVars, statsVars, mapperVars, triplesVars, linkerVars>>
nonSplit == <<taskVars, batchVars, siteVars, upsertVars, persistVars, mergerVars, expandVars, tombVars, ckVars, configVars, statsVars, mapperVars, triplesVars, linkerVars>>
nonTomb == <<taskVars, batchVars, siteVars, upsertVars, persistVars, mergerVars, expandVars, splitVars, ckVars, configVars, statsVars, mapperVars, triplesVars, linkerVars>>
nonCk == <<taskVars, batchVars, siteVars, upsertVars, persistVars, mergerVars, expandVars, splitVars, tombVars, configVars, statsVars, mapperVars, triplesVars, linkerVars>>
nonConfig == <<taskVars, batchVars, siteVars, upsertVars, persistVars, mergerVars, expandVars, splitVars, tombVars, ckVars, statsVars, mapperVars, triplesVars, linkerVars>>
nonStats == <<taskVars, batchVars, siteVars, upsertVars, persistVars, mergerVars, expandVars, splitVars, tombVars, ckVars, configVars, mapperVars, triplesVars, linkerVars>>
nonMapper == <<taskVars, batchVars, siteVars, upsertVars, persistVars, mergerVars, expandVars, splitVars, tombVars, ckVars, configVars, statsVars, triplesVars, linkerVars>>
nonTriples == <<taskVars, batchVars, siteVars, upsertVars, persistVars, mergerVars, expandVars, splitVars, tombVars, ckVars, configVars, statsVars, mapperVars, linkerVars>>
nonLinker == <<taskVars, batchVars, siteVars, upsertVars, persistVars, mergerVars, expandVars, splitVars, tombVars, ckVars, configVars, statsVars, mapperVars, triplesVars>>

\* every variable group but g is at rest
Idle(g) ==
    /\ (g = "task" \/ InitTaskIdle)
    /\ (g = "batch" \/ InitBatchIdle)
    /\ (g = "sites" \/ InitSitesIdle)
    /\ (g = "upsert" \/ InitUpsertIdle)
    /\ (g = "persist" \/ InitPersistIdle)
    /\ (g = "merger" \/ InitMergerIdle)
    /\ (g = "expand" \/ InitExpandIdle)
    /\ (g = "split" \/ InitSplitIdle)
    /\ (g = "tomb" \/ InitTombIdle)
    /\ (g = "ck" \/ InitCkIdle)
    /\ (g = "config" \/ InitConfigIdle)
    /\ (g = "stats" \/ InitStats)
    /\ (g = "mapper" \/ InitMapperIdle)
    /\ (g = "triples" \/ InitTriplesIdle)
    /\ (g = "linker" \/ InitLinkerIdle)

NextTask ==
    \/ Start /\ UNCHANGED nonTask
    \/ SetRunning /\ UNCHANGED nonTask
    \/ ChkStart /\ UNCHANGED nonTask
    \/ Register /\ UNCHANGED nonTask
    \/ ChkIndex /\ UNCHANGED nonTask
    \/ IndexImages /\ UNCHANGED nonTask
    \/ ChkSite /\ UNCHANGED nonTask
    \/ SiteCall /\ UNCHANGED nonTask
    \/ SiteReturn /\ UNCHANGED nonTask
    \/ ChkPeriod /\ UNCHANGED nonTask
    \/ PeriodCall /\ UNCHANGED nonTask
    \/ PeriodReturn /\ UNCHANGED nonTask
    \/ ChkPottery /\ UNCHANGED nonTask
    \/ ChkJade /\ UNCHANGED nonTask
    \/ ArtTomb /\ UNCHANGED nonTask
    \/ ArtChunk /\ UNCHANGED nonTask
    \/ ArtCall /\ UNCHANGED nonTask
    \/ ArtReturn /\ UNCHANGED nonTask
    \/ ArtExpand /\ UNCHANGED nonTask
    \/ ExpandReturn /\ UNCHANGED nonTask
    \/ UpdateStatistics /\ UNCHANGED nonTask
    \/ SetCompleted /\ UNCHANGED nonTask
    \/ LogDone /\ UNCHANGED nonTask
    \/ ExceptLog /\ UNCHANGED nonTask
    \/ ExceptStatus /\ UNCHANGED nonTask
    \/ ExceptDetail /\ UNCHANGED nonTask
    \/ GuiRender /\ UNCHANGED nonTask
    \/ abort_task /\ UNCHANGED nonTask

NextBatch ==
    \/ BatchNoBots /\ UNCHANGED nonBatch
    \/ BatchBegin /\ UNCHANGED nonBatch
    \/ BatchCreate /\ UNCHANGED nonBatch
    \/ BatchEnter /\ UNCHANGED nonBatch
    \/ BatchSubmit /\ UNCHANGED nonBatch
    \/ WorkerTake /\ UNCHANGED nonBatch
    \/ \E i \in 1..bN : TaskLLMCall(i) /\ UNCHANGED nonBatch
    \/ \E i \in 1..bN : TaskLLMReturn(i) /\ UNCHANGED nonBatch
    \/ \E i \in 1..bN : TaskFinish(i) /\ UNCHANGED nonBatch
    \/ \E i \in 1..bN : BatchCollect(i) /\ UNCHANGED nonBatch
    \/ BatchCollected /\ UNCHANGED nonBatch
    \/ BatchReturn /\ UNCHANGED nonBatch

NextSites ==
    \/ \E s \in SeqSlots, f \in 1..MaxFolders : RunStart(s, f) /\ UNCHANGED nonSites
    \/ \E s \in SeqSlots : LookupReport(s) /\ UNCHANGED nonSites
    \/ \E s \in SeqSlots : ExtractSiteUpdate(s) /\ UNCHANGED nonSites
    \/ \E s \in SeqSlots : PreExtract(s) /\ UNCHANGED nonSites
    \/ \E s \in SeqSlots : NameLookup(s) /\ UNCHANGED nonSites
    \/ \E s \in SeqSlots : MergeSite(s) /\ UNCHANGED nonSites
    \/ \E s \in SeqSlots : InsertSite(s) /\ UNCHANGED nonSites
    \/ \E s \in SeqSlots : RunEnd(s) /\ UNCHANGED nonSites

NextSitesPar ==
    \/ \E s \in ParSlots, f \in 1..ParFolders :
          Len(sTasks) < ParRuns /\ RunStart(s, f) /\ UNCHANGED nonSites
    \/ \E s \in ParSlots : LookupReport(s) /\ UNCHANGED nonSites
    \/ \E s \in ParSlots : ExtractSiteUpdate(s) /\ UNCHANGED nonSites
    \/ \E s \in ParSlots : PreExtract(s) /\ UNCHANGED nonSites
    \/ \E s \in ParSlots : NameLookup(s) /\ UNCHANGED nonSites
    \/ \E s \in ParSlots : MergeSite(s) /\ UNCHANGED nonSites
    \/ \E s \in ParSlots : InsertSite(s) /\ UNCHANGED nonSites
    \/ \E s \in ParSlots : RunEnd(s) /\ UNCHANGED nonSites

InitTaskSpec == InitTask /\ Idle("task")

SpecTask == InitTaskSpec /\ [][NextTask]_vars

InitBatchSpec == InitBatch /\ Idle("batch")

SpecBatch == InitBatchSpec /\ [][NextBatch]_vars

InitSitesSpec == InitSites /\ Idle("sites")

SpecSites == InitSitesSpec /\ [][NextSites]_vars

NextUpsert ==
    \/ \E kind \in ArtifactTables, data \in UpsertData :
          UpsertCall(kind, data) /\ UNCHANGED nonUpsert
    \/ OtherInsert /\ UNCHANGED nonUpsert

InitUpsertSpec == InitUpsert /\ Idle("upsert")

SpecUpsert == InitUpsertSpec /\ [][NextUpsert]_vars

NextPersist ==
    \/ WriteSite /\ UNCHANGED nonPersist
    \/ SkipSite /\ UNCHANGED nonPersist
    \/ EnterPeriods /\ UNCHANGED nonPersist
    \/ WritePeriod /\ UNCHANGED nonPersist
    \/ PeriodsDone /\ UNCHANGED nonPersist
    \/ \E kind \in ArtifactTables : EnterPass(kind) /\ UNCHANGED nonPersist
    \/ \E kind \in ArtifactTables : HandleArtifact(kind) /\ UNCHANGED nonPersist
    \/ \E kind \in ArtifactTables : PassDone(kind) /\ UNCHANGED nonPersist

InitPersistSpec == InitPersist /\ Idle("persist")

SpecPersist == InitPersistSpec /\ [][NextPersist]_vars

NextMerger ==
    \/ MergeCall /\ UNCHANGED nonMerger

InitMergerSpec == InitMerger /\ Idle("merger")

SpecMerger == InitMergerSpec /\ [][NextMerger]_vars

NextExpand ==
    \/ ExpandCall /\ UNCHANGED nonExpand

InitExpandSpec == InitExpand /\ Idle("expand")

SpecExpand == InitExpandSpec /\ [][NextExpand]_vars

NextSplit ==
    \/ SplitCall /\ UNCHANGED nonSplit

InitSplitSpec == InitSplit /\ Idle("split")

SpecSplit == InitSplitSpec /\ [][NextSplit]_vars

NextTomb ==
    \/ SplitByTombCall /\ UNCHANGED nonTomb

InitTombSpec == InitTomb /\ Idle("tomb")

SpecTomb == InitTombSpec /\ [][NextTomb]_vars

InitSplitAnySpec == InitSplitAny /\ Idle("split")

SpecSplitAny == InitSplitAnySpec /\ [][NextSplit]_vars

NextTaskCk ==
    \/ Start /\ Observe /\ UNCHANGED nonTaskCk
    \/ SetRunning /\ Observe /\ UNCHANGED nonTaskCk
    \/ ChkStart /\ Observe /\ UNCHANGED nonTaskCk
    \/ Register /\ Observe /\ UNCHANGED nonTaskCk
    \/ ChkIndex /\ Observe /\ UNCHANGED nonTaskCk
    \/ IndexImages /\ Observe /\ UNCHANGED nonTaskCk
    \/ ChkSite /\ Observe /\ UNCHANGED nonTaskCk
    \/ SiteCall /\ Observe /\ UNCHANGED nonTaskCk
    \/ SiteReturn /\ Observe /\ UNCHANGED nonTaskCk
    \/ ChkPeriod /\ Observe /\ UNCHANGED nonTaskCk
    \/ PeriodCall /\ Observe /\ UNCHANGED nonTaskCk
    \/ PeriodReturn /\ Observe /\ UNCHANGED nonTaskCk
    \/ ChkPottery /\ Observe /\ UNCHANGED nonTaskCk
    \/ ChkJade /\ Observe /\ UNCHANGED nonTaskCk
    \/ ArtTomb /\ Observe /\ UNCHANGED nonTaskCk
    \/ ArtChunk /\ Observe /\ UNCHANGED nonTaskCk
    \/ ArtCall /\ Observe /\ UNCHANGED nonTaskCk
    \/ ArtReturn /\ Observe /\ UNCHANGED nonTaskCk
    \/ ArtExpand /\ Observe /\ UNCHANGED nonTaskCk
    \/ ExpandReturn /\ Observe /\ UNCHANGED nonTaskCk
    \/ UpdateStatistics /\ Observe /\ UNCHANGED nonTaskCk
    \/ SetCompleted /\ Observe /\ UNCHANGED nonTaskCk
    \/ LogDone /\ Observe /\ UNCHANGED nonTaskCk
    \/ ExceptLog /\ Observe /\ UNCHANGED nonTaskCk
    \/ ExceptStatus /\ Observe /\ UNCHANGED nonTaskCk
    \/ ExceptDetail /\ Observe /\ UNCHANGED nonTaskCk
    \/ GuiRender /\ Observe /\ UNCHANGED nonTaskCk
    \/ abort_task /\ Observe /\ UNCHANGED nonTaskCk

InitTaskCkSpec == InitTask /\ Idle("task")

SpecTaskCk == InitTaskCkSpec /\ [][NextTaskCk]_vars

NextConfig ==
    \/ ExtractionLLMCall /\ UNCHANGED nonConfig
    \/ ExpansionLLMCall /\ UNCHANGED nonConfig

InitConfigSpec == InitConfig /\ Idle("config")

SpecConfig == InitConfigSpec /\ [][NextConfig]_vars

NextPersistStats ==
    \/ WriteSite /\ CountPass /\ UNCHANGED nonPersistStats
    \/ SkipSite /\ CountPass /\ UNCHANGED nonPersistStats
    \/ EnterPeriods /\ CountPass /\ UNCHANGED nonPersistStats
    \/ WritePeriod /\ CountPass /\ UNCHANGED nonPersistStats
    \/ PeriodsDone /\ CountPass /\ UNCHANGED nonPersistStats
    \/ \E kind \in ArtifactTables : EnterPass(kind) /\ CountPass /\ UNCHANGED nonPersistStats
    \/ \E kind \in ArtifactTables : HandleArtifact(kind) /\ CountPass /\ UNCHANGED nonPersistStats
    \/ \E kind \in ArtifactTables : PassDone(kind) /\ CountPass /\ UNCHANGED nonPersistStats

InitPersistStatsSpec == InitPersist /\ Idle("persist")

SpecPersistStats == InitPersistStatsSpec /\ [][NextPersistStats]_vars

\* the caller and the worker threads keep running while they can, every LLM
\* call in flight returns or raises, and a running task makes finitely many
\* calls before execute_full_extraction ends
SpecBatchFair ==
    /\ InitBatchSpec
    /\ [][NextBatch]_vars
    /\ WF_vars(NextBatch)
    /\ \A i \in 1..MaxTasks : SF_vars(TaskFinish(i) /\ UNCHANGED nonBatch)

NextMapper ==
    \/ MapFieldsCall /\ UNCHANGED nonMapper

InitMapperSpec == InitMapper /\ Idle("mapper")

SpecMapper == InitMapperSpec /\ [][NextMapper]_vars

NextTriples == GenerateTriplesCall /\ UNCHANGED nonTriples

InitTriplesSpec == InitTriples /\ Idle("triples")

SpecTriples == InitTriplesSpec /\ [][NextTriples]_vars

NextLinker == LinkArtifactToImages /\ UNCHANGED nonLinker

InitLinkerSpec == InitLinker /\ Idle("linker")

SpecLinker == InitLinkerSpec /\ [][NextLinker]_vars

InitSitesParSpec == InitSitesPar /\ Idle("sites")

SpecSitesPar == InitSitesParSpec /\ [][NextSitesPar]_vars

(***************************************************************************)
(* Claims about one task (checked under SpecTask)                          *)
(***************************************************************************)
ReturnedOk(k) == \E r \in calls : r.call.kind = k /\ r.outcome = "ok"
Issued == inflight \cup { r.call : r \in calls }
ArtifactKinds == {"pottery", "jade"}
PassOf(k) == IF k \in {"pottery", "expand_pottery"} THEN "pottery"
             ELSE IF k \in {"jade", "expand_jade"} THEN "jade" ELSE "none"

\* C1: a task that observed the abort at a cancellation checkpoint and has
\* left execute_full_extraction has the persisted status aborted.
C1_AbortObservedEndsAborted ==
    (exc = "cancel" /\ pc = "raised") => status = "aborted"

\* the edges of the task state machine
AllowedTransitions ==
    { <<"pending", "running">>, <<"running", "completed">>,
      <<"running", "failed">>, <<"running", "aborted">> }

\* C2: the persisted status changes only along pending->running,
\* running->completed, running->failed, running->aborted, so a status of
\* completed, failed or aborted never changes again.
C2_StatusTransitions ==
    [][ status' # status => <<status, status'>> \in AllowedTransitions ]_taskVars

\* C3: no ERROR-level log row is written for the cancellation: every ERROR
\* row of the task stems from something other than the observed abort.
C3_CancellationNotLoggedAsError ==
    \A l \in logs : l[1] = "ERROR" => l[3].kind # "cancel"

\* C6: a chunk whose LLM call or parsing failed leaves no records in the
\* collected list and an ERROR row in the log; the exception does not leave
\* the chunk loop (the task never fails because of it), and a pass that
\* returned has issued the call of every chunk of every tomb block.
C6_ChunkFailureIsLocal ==
    /\ exc # "chunk"
    /\ (status = "failed") => (exc \in {"cancel", "index", "site", "period"})
    /\ \A r \in calls :
          (r.call.kind \in ArtifactKinds /\ r.outcome # "ok") =>
             /\ Log("ERROR", "chunk_failed", r.call) \in logs
             /\ (r.call.kind = pass) => (<<r.call.tomb, r.call.chunk>> \notin collected)
    /\ \A p \in passDone : \A tc \in AllChunks :
          \E r \in calls : r.call = Call(p, tc[1], tc[2])

\* C6 witness: a first chunk failed, a later chunk was still extracted, the
\* pass returned and the task completed
C6_Witness ==
    /\ status = "completed"
    /\ \E r1, r2 \in calls :
          /\ r1.call.kind = "pottery" /\ r2.call.kind = "pottery"
          /\ r1.outcome # "ok" /\ r2.outcome = "ok"
          /\ \/ r1.call.tomb < r2.call.tomb
             \/ r1.call.tomb = r2.call.tomb /\ r1.call.chunk < r2.call.chunk

\* C7: every response on which extract_json_from_response failed is in a file
\* of the recovery log once the orchestrator went on to the next chunk or the
\* task ended, at every call site (site, period, pottery/jade chunk).
C7_ParseFailureSaved ==
    \A r \in calls :
       (r.outcome = "parse" /\ (r.call.kind \in ArtifactKinds \/ pc = "raised")) =>
          \E f \in files : f.content = r.call

\* the period step is due: requested and the site id is not None
PeriodDue == "period" \in templates /\ siteId # 0

\* C8: LLM calls of one task never overlap; a period, pottery or jade call is
\* issued only after the site step finished (with a site id when a site
\* template was given), pottery and jade calls only after a due period step,
\* jade calls only after a requested pottery pass returned; completed is
\* written only after every requested step finished.
C8_StepsInOrder ==
    /\ Cardinality(inflight) <= 1
    /\ \A c \in Issued : (c.kind # "site") =>
          /\ siteDone
          /\ ("site" \in templates) =>
                (siteId # 0 /\ ReturnedOk("site") /\ Call("site", 0, 0) \notin inflight)
    /\ \A c \in Issued : (PassOf(c.kind) # "none" /\ PeriodDue) =>
          (ReturnedOk("period") /\ Call("period", 0, 0) \notin inflight)
    /\ \A c \in Issued : (PassOf(c.kind) = "jade" /\ "pottery" \in templates) =>
          "pottery" \in passDone
    /\ (status = "completed") =>
          /\ inflight = {}
          /\ siteDone
          /\ ("site" \in templates) => ReturnedOk("site")
          /\ PeriodDue => ReturnedOk("period")
          /\ \A p \in templates \cap ArtifactKinds : p \in passDone

\* C8 witness: a task with all four templates completed
C8_Witness ==
    /\ status = "completed"
    /\ templates = Kinds
    /\ passDone = ArtifactKinds
    /\ ReturnedOk("site") /\ ReturnedOk("period")


(***************************************************************************)
(* Claims about a batch (checked under SpecBatch)                          *)
(***************************************************************************)
\* C4: no two tasks hold an LLM call in flight with the same bot at the same
\* time.
C4_NoSharedCredentialInFlight ==
    \A i, j \in bLLM : i # j => BotOf(i) # BotOf(j)

\* C5: when execute_batch returns after submitting its tasks, every task was
\* run to its own end and results holds exactly one entry per task, success
\* when the task returned and failed when it raised, whatever the siblings did.
C5_FailureIsolated ==
    (bpc = "done" /\ bCreated = bN /\ bPool > 0) =>
       /\ Len(bResults) = bN
       /\ \A i \in 1..bN :
             /\ bOutcome[i] # "none"
             /\ Cardinality({k \in 1..Len(bResults) : bResults[k].task = i}) = 1
             /\ result_entry(i, bOutcome[i]) \in {bResults[k] : k \in 1..Len(bResults)}

\* C5 witness: a batch returned in which one task raised and a task that
\* finished after it returned normally
C5_Witness ==
    /\ bpc = "done"
    /\ \E k1, k2 \in 1..Len(bResults) :
          /\ k1 < k2
          /\ bResults[k1].status = "failed" /\ bResults[k1].task # 0
          /\ bResults[k2].status = "success"


(***************************************************************************)
(* Claims about the sites table (checked under SpecSites)                  *)
(***************************************************************************)
\* C9: a finished site step of a run on a folder for which an earlier run
\* inserted or merged into a row has that row's id as site_id and has
\* inserted no row.
C9_RerunUpdatesSameRow ==
    \A s \in SeqSlots :
       (sRun[s].pc = "done" /\ sRun[s].prior # 0) =>
          /\ sRun[s].site_id = sRun[s].prior
          /\ Len(sSites) = sRun[s].rowsBefore

\* no report folder was processed twice
FoldersDistinct ==
    \A t1, t2 \in 1..Len(sTasks) : t1 # t2 => sTasks[t1] # sTasks[t2]

RowsNamed(n) == { i \in 1..Len(sSites) : sSites[i].site_name = n }

\* C10: with runs one after another on different report folders, a run whose
\* pre-extracted name equals, contains or is contained in the name of an
\* existing row updates an existing row and inserts none, and no two rows of
\* the table ever bear the same site name.
C10_NameMergeKeepsOneRow ==
    FoldersDistinct =>
       /\ \A s \in SeqSlots :
             (sRun[s].pc = "done" /\ sRun[s].hadMatch) =>
                /\ Len(sSites) = sRun[s].rowsBefore
                /\ sRun[s].site_id \in 1..sRun[s].rowsBefore
                /\ RowsNamed(sRun[s].name) = {sRun[s].site_id}
       /\ \A i, j \in 1..Len(sSites) :
             i # j => sSites[i].site_name # sSites[j].site_name

\* C10 witness: the third run on a third folder found its name contained in
\* (not equal to) an existing row's name and merged into that row, while
\* another row exists
C10_Witness ==
    /\ FoldersDistinct
    /\ Len(sTasks) = 3
    /\ Len(sSites) = 2
    /\ \E s \in SeqSlots :
          /\ sRun[s].pc = "done" /\ sRun[s].hadMatch
          /\ sRun[s].task = 3
          /\ sRun[s].name = <<1, 2>>

(***************************************************************************)
(* Claims about concurrent site steps (checked under SpecSitesPar)         *)
(***************************************************************************)
\* the run in slot s finished its site step through the insert branch
Inserted(s) ==
    /\ sRun[s].pc = "done"
    /\ sRun[s].existing = 0
    /\ sRun[s].found = 0

\* C11: when the only two tasks run concurrently on different folders, both
\* looked the same site name up while the table was empty and both took the
\* insert branch, the table holds two distinct site rows with that name:
\* nothing at the insert detects the other run's row.
C11_ConcurrentInsertDuplicates ==
    \A s1, s2 \in ParSlots :
       ( /\ s1 # s2
         /\ Len(sTasks) = 2
         /\ Inserted(s1) /\ Inserted(s2)
         /\ sRun[s1].rowsBefore = 0 /\ sRun[s2].rowsBefore = 0
         /\ sRun[s1].folder # sRun[s2].folder
         /\ sRun[s1].name = sRun[s2].name )
       => /\ Len(sSites) = 2
          /\ sRun[s1].site_id # sRun[s2].site_id
          /\ RowsNamed(sRun[s1].name) = {sRun[s1].site_id, sRun[s2].site_id}

\* C11 witness: the table was empty, both runs looked the name up before
\* either inserted, both inserted, and the two rows bear the same name
C11_Witness ==
    /\ Len(sTasks) = 2
    /\ Len(sSites) = 2
    /\ sSites[1].site_name = sSites[2].site_name
    /\ sTasks[1] # sTasks[2]
    /\ Inserted(1) /\ Inserted(2)
    /\ sRun[1].rowsBefore = 0 /\ sRun[2].rowsBefore = 0

(***************************************************************************)
(* Claims about the artifact upsert (checked under SpecUpsert)             *)
(***************************************************************************)
\* C12: after any sequence of insert_pottery / insert_jade calls with
\* non-null site_id and artifact_code each table holds at most one row per
\* (site_id, artifact_code), and a call whose key already existed returned
\* that row's id, inserted no row and left the row's task_id, site_id and
\* artifact_code as they were.
C12_UpsertByKey ==
    /\ \A k \in ArtifactTables : \A i, j \in 1..Len(uTable[k]) :
          ( /\ uTable[k][i].site_id = uTable[k][j].site_id
            /\ uTable[k][i].artifact_code = uTable[k][j].artifact_code )
          => i = j
    /\ uCall # NoCall =>
          LET d == uCall.data
              e == RowByKey(uBefore, d.site_id, d.artifact_code)
              now == uTable[uCall.kind]
          IN  e # 0 =>
                 /\ uRet = Returned(e)
                 /\ Len(now) = Len(uBefore)
                 /\ now[e].task_id = uBefore[e].task_id
                 /\ now[e].site_id = uBefore[e].site_id
                 /\ now[e].artifact_code = uBefore[e].artifact_code

(***************************************************************************)
(* Claims about what follows a row write (checked under SpecPersist)       *)
(***************************************************************************)
\* C13: every site, period, pottery or jade row the task inserted or updated
\* has had triple generation run for it in the same task, on every path.
C13_TriplesAfterEveryWrite ==
    \A w \in wWritten : Row(w.kind, w.n) \in wTripled

\* the record belongs to the other kind, in the words of C20
Mismatch(kind, a) ==
    IF kind = "pottery"
    THEN a.jade_type # <<>>
    ELSE \/ a.clay_type # <<>>
         \/ IsSub(<<"tao">>, a.category_level1)
         \/ a.jade_type = <<"tao">>
         \/ IsSub(<<"tao", "qi">>, a.jade_type)

\* C20: a record of the pottery pass with a non-empty jade_type, and a record
\* of the jade pass with a non-empty clay_type, a category_level1 containing
\* the pottery character or a jade_type that is that character or contains
\* the word for pottery ware, is not inserted: it is skipped with a WARNING
\* row and gets no triples and no image links.
C20_MismatchNeverInserted ==
    \A kind \in ArtifactTables :
       (wpc = RowsPc(kind) /\ Mismatch(kind, wLast)) =>
          /\ Row(kind, wLeft + 1) \in wLogs
          /\ \A w \in wWritten : Row(w.kind, w.n) # Row(kind, wLeft + 1)
          /\ Row(kind, wLeft + 1) \notin wTripled
          /\ Row(kind, wLeft + 1) \notin wLinked

\* C20 witness: the jade pass skipped a record only because its
\* category_level1 contains the pottery character, after inserting another
C20_Witness ==
    /\ wpc = "jade_rows"
    /\ wLeft = 0
    /\ wLast.clay_type = <<>> /\ wLast.jade_type = <<"yu">>
    /\ wLast.category_level1 = <<"cai", "tao">>
    /\ Row("jade", 1) \in wLogs
    /\ Row("jade", 2) \in wLinked

(***************************************************************************)
(* Claims about the merger (checked under SpecMerger)                      *)
(***************************************************************************)
\* the non-empty key values of the input
InputKeys ==
    { Get(artifact_list[i], key_field) : i \in 1..Len(artifact_list) }
       \ {None, Str("")}

\* the positions of the input that carry key k
Carriers(k) ==
    { i \in 1..Len(artifact_list) : Get(artifact_list[i], key_field) = k }

FirstCarrier(k) == CHOOSE i \in Carriers(k) : \A j \in Carriers(k) : i <= j

ValuesOf(k, f) ==
    SelectSeq([i \in 1..Len(artifact_list) |->
                 IF i \in Carriers(k) THEN Get(artifact_list[i], f) ELSE None],
              LAMBDA x : x # None)

\* the value the policy of C15 gives field f for the values q
PolicyHolds(f, q, out) ==
    LET vals == Range(q) IN
    IF vals = {} THEN out = None
    ELSE IF Cardinality(vals) = 1 THEN out \in vals
    ELSE IF \A x \in vals : x.t = "num"
    THEN out \in vals /\ \A x \in vals : x.v <= out.v
    ELSE IF \A x \in vals : x.t = "str"
    THEN IF f = "description"
         THEN out = Str(Join(Dedup(q)))
         ELSE out \in vals /\ \A x \in vals : Len(x.v) <= Len(out.v)
    ELSE out = Str(Join(Dedup(q)))

\* C15: the record merged from two or more records of one key has exactly the
\* union of their field names, and each field follows the policy: null if no
\* non-null value, the value if one distinct value, the maximum if all
\* numeric, the longest if all strings (all distinct values joined with " | "
\* for a descriptive field), the stringified values joined if mixed.
C15_MergePolicy ==
    mpc = "done" =>
       \A k \in InputKeys :
          Cardinality(Carriers(k)) >= 2 =>
             \E n \in 1..Len(merged) :
                /\ Get(merged[n], key_field) = k
                /\ DOMAIN merged[n] =
                      UNION { DOMAIN artifact_list[i] : i \in Carriers(k) }
                /\ \A f \in DOMAIN merged[n] :
                      PolicyHolds(f, ValuesOf(k, f), merged[n][f])

\* C15 witness: two records of one key with different descriptions and a
\* number against a string merged into one record
C15_Witness ==
    /\ mpc = "done"
    /\ Len(artifact_list) = 2
    /\ Len(merged) = 1
    /\ "description" \in DOMAIN merged[1]
    /\ merged[1]["description"] = Str("p | q")
    /\ "height" \in DOMAIN merged[1]
    /\ merged[1]["height"] = Str("1 | x")


(***************************************************************************)
(* Claims about range expansion (SpecExpand)                               *)
(***************************************************************************)
\* the records of a list that carry the other fields of record a
DerivedFrom(list, a) == SelectSeq(list, LAMBDA r : r.subtype = a.subtype)

\* C16: _expand_artifact_ranges never loses a record: every input record has
\* at least one output record derived from it, every output record equals an
\* input record in every field other than artifact_code, and the call leaves
\* the input records as they were.
C16_ExpandLosesNothing ==
    [][xpc' = "done" =>
        /\ artifacts' = artifacts
        /\ \A i \in 1..Len(artifacts) :
              DerivedFrom(expanded', artifacts[i]) # <<>>
        /\ \A j \in 1..Len(expanded') :
              \E i \in 1..Len(artifacts) :
                 [expanded'[j] EXCEPT !.artifact_code = artifacts[i].artifact_code]
                    = artifacts[i]]_vars

\* a call whose first record was answered by the LLM with no usable code and
\* whose second record was expanded by the rule layer
C16_Witness ==
    /\ xpc = "done"
    /\ Len(artifacts) = 2
    /\ xreplies[1].kind \in {"raise", "other", "list"}
    /\ expand_code_with_llm(xreplies[1]) = <<>>
    /\ expanded[1] = artifacts[1]
    /\ Len(DerivedFrom(expanded, artifacts[2])) = 2

\* the rule layer parsed the code and refused the range
RejectedRange(code) ==
    /\ parse_range(code) # <<>>
    /\ \/ parse_range(code)[1].end_num <= parse_range(code)[1].start_num
       \/ parse_range(code)[1].end_num - parse_range(code)[1].start_num
             >= SpanLimit

\* C17: a code <prefix><start>~<end> with end <= start or end - start >= 100
\* is left unexpanded whatever the LLM fallback answers: the output holds the
\* one original record with its artifact_code unchanged.
C17_RejectedRangeKept ==
    xpc = "done" =>
        \A i \in 1..Len(artifacts) :
            RejectedRange(code_of(artifacts[i])) =>
                DerivedFrom(expanded, artifacts[i]) = <<artifacts[i]>>

(***************************************************************************)
(* Claims about text chunking (SpecSplit)                                  *)
(***************************************************************************)
\* C18: in _split_large_text the next chunk starts overlap characters before
\* the previous chunk's end only when that chunk ended with a hard cut; after
\* a cut at a newline or at the full stop the next chunk starts exactly at
\* the previous chunk's end.
C18_OverlapOnlyAfterHardCut ==
    spc = "done" =>
        \A i \in 1..(Len(cuts) - 1) :
            cuts[i + 1].from = IF cuts[i].cut = "hard"
                               THEN cuts[i].to - overlap
                               ELSE cuts[i].to

(***************************************************************************)
(* Claims about tomb segmentation (SpecTomb)                               *)
(***************************************************************************)
HeadingAt(t) == {i \in 1..Len(t) : t[i].pattern # 0}

\* the non-blank lines that are no heading and follow the first heading
RECURSIVE BodyLines(_, _)
BodyLines(t, open) ==
    IF t = <<>> THEN <<>>
    ELSE IF Head(t).pattern # 0 THEN BodyLines(Tail(t), TRUE)
    ELSE IF open /\ Head(t).body # ""
         THEN <<Head(t).body>> \o BodyLines(Tail(t), open)
    ELSE BodyLines(Tail(t), open)

\* the non-blank lines of the segments, in returned order
RECURSIVE SegmentLines(_)
SegmentLines(items) ==
    IF items = <<>> THEN <<>>
    ELSE SelectSeq(Head(items).content, LAMBDA l : l # "")
         \o SegmentLines(Tail(items))

\* C19: for a text with at least one recognized tomb heading, every line that
\* is no heading and follows the first heading is in exactly one segment of
\* split_by_tomb, and the segments concatenated in returned order give those
\* lines in their original order, up to the whitespace stripped at segment
\* boundaries.
C19_SegmentsPartitionText ==
    (tpc = "done" /\ HeadingAt(full_text) # {}) =>
        SegmentLines(result) = BodyLines(full_text, FALSE)

\* C30: for every non-empty text, chunk_size >= 1 and overlap >= 0,
\* _split_large_text returns (the call ends with a result) chunks that cover
\* the text: the first starts at 0, each next one starts no later than the
\* previous one's end, the last ends at the end of the text, and no chunk is
\* empty or longer than chunk_size.
C30_ChunksCoverText ==
    (spc = "done" /\ text # <<>>) =>
        /\ cuts # <<>>
        /\ cuts[1].from = 0
        /\ cuts[Len(cuts)].to = Len(text)
        /\ \A i \in 1..Len(cuts) :
              /\ cuts[i].from < cuts[i].to
              /\ cuts[i].to - cuts[i].from <= chunk_size
        /\ \A i \in 1..(Len(cuts) - 1) : cuts[i + 1].from <= cuts[i].to

\* a text cut into several chunks with an overlap larger than the chunk, and
\* one cut with no overlap at all
C30_Witness ==
    /\ spc = "done"
    /\ Len(cuts) >= 3
    /\ overlap > chunk_size
    /\ \E i \in 1..(Len(cuts) - 1) : cuts[i].cut = "newline"

(***************************************************************************)
(* Claims about cancellation checkpoints (SpecTaskCk)                      *)
(***************************************************************************)
\* C25: every LLM call a task issues (site, period, chunk extraction and
\* range expansion) is preceded by a cancellation checkpoint that ran after
\* the task's previous LLM call returned, so that an abort written while a
\* call is in flight lets no further call start.
C25_CheckpointBeforeEveryCall ==
    [][CallIssued => checkpointed]_vars

(***************************************************************************)
(* Further claims about the task model (SpecTask)                          *)
(***************************************************************************)
\* C26: each recovery-log file written for chunk k of a tomb block holds the
\* response text returned by the LLM call made for that same chunk, and a
\* chunk whose LLM call failed without returning a response gets no
\* recovery-log file, whatever happened on earlier chunks.
C26_RecoveryFileIsOwnResponse ==
    /\ \A f \in files : f.content = Call(f.type, f.tomb, f.chunk)
    /\ \A r \in calls :
          (r.call.kind \in ArtifactKinds /\ r.outcome = "transport") =>
              ~\E f \in files :
                  /\ f.type = r.call.kind
                  /\ f.tomb = r.call.tomb
                  /\ f.chunk = r.call.chunk

(***************************************************************************)
(* Claims about the LLM configuration (SpecConfig)                         *)
(***************************************************************************)
\* C27: _expand_code_with_llm applies temperature 0.1 to its own call only:
\* the task's llm_config is unchanged after it returns, so every extraction
\* call of the task uses the same temperature, before and after an expansion.
C27_ExpansionLeavesConfig ==
    \A i, j \in 1..Len(callLog) :
        (callLog[i].kind = "extraction" /\ callLog[j].kind = "extraction") =>
            callLog[i].temperature = callLog[j].temperature

(***************************************************************************)
(* Claims about the task statistics (SpecPersistStats)                     *)
(***************************************************************************)
RowsWritten(kind) == {w \in wWritten : w.kind = kind}

\* C28: when a task completes, the total_pottery and total_jade statistics
\* written to the task equal the number of pottery and jade records the task
\* inserted or updated in the artifact tables.
C28_StatisticsCountWrittenRows ==
    wpc = "end" =>
        \A kind \in ArtifactTables :
            counts[kind] = Cardinality(RowsWritten(kind))

(***************************************************************************)
(* Claims about the batch under fair scheduling (SpecBatchFair)            *)
(***************************************************************************)
\* C29: every task row execute_batch creates is eventually executed by a
\* worker and leaves the pending state (its run ends, completed, failed or
\* aborted), provided every LLM call eventually returns or raises; also when
\* the creation of a later task of the same batch fails.
C29_CreatedTaskEventuallyRuns ==
    \A i \in 1..MaxTasks :
        [](i <= bCreated => <>(i <= bN /\ bOutcome[i] # "none"))

(***************************************************************************)
(* Claims about field mapping (SpecMapper)                                 *)
(***************************************************************************)
\* C22: for every catalog, also one in which two display names resolve to
\* the same storage key, and every record, map_artifact_fields renames each
\* key that is a display name of the catalog to that name's storage key, and
\* every key that is no display name of the catalog is in the output under
\* its own name with its value unchanged.
C22_DisplayNamesRenamed ==
    fpc = "done" =>
        \A i \in 1..Len(fmRecord) :
            LET key == fmRecord[i].name IN
            IF key \in Range(feature_fields)
            THEN /\ to_db_field_name(key) \in DictKeys(fmMapped)
                 /\ key \notin DictKeys(fmMapped)
            ELSE /\ key \in DictKeys(fmMapped)
                 /\ DictGet(fmMapped, key, 0) = fmRecord[i].content

(***************************************************************************)
(* C23: _generate_triples emits exactly one triple for every field of the  *)
(* record whose value is not None (0, False and '' included), whose        *)
(* cleaned key matches a registered display name or storage key and whose  *)
(* mapping has a non-empty ontology relation; the triple carries that      *)
(* mapping's id and relation and the value's string form.                  *)
(***************************************************************************)
\* the registered mappings a field name matches
MatchingRows(key) ==
  { n \in 1..Len(mappings) :
      \/ mappings[n].name_cn # <<>> /\ clean_string(mappings[n].name_cn) = clean_string(key)
      \/ mappings[n].name_en # <<>> /\ clean_string(mappings[n].name_en) = clean_string(key) }

QualifyingFields ==
  { i \in 1..Len(tData) :
      /\ tData[i].value # None
      /\ \E n \in MatchingRows(tData[i].key) : mappings[n].prop # "" }

TripleOf(i) ==
  LET n == CHOOSE n \in MatchingRows(tData[i].key) : TRUE
  IN [mapping_id |-> mappings[n].id, predicate |-> mappings[n].prop,
      object_value |-> py_str(tData[i].value)]

C23_OneTriplePerNonNullField ==
  gpc = "done" =>
    /\ Len(triples) = Cardinality(QualifyingFields)
    /\ \A i \in QualifyingFields : \E j \in 1..Len(triples) : triples[j] = TripleOf(i)

\* the same statement for records without 0, False or ''
C23_Sanity ==
  (\A i \in 1..Len(tData) : tData[i].value = None \/ truthy(tData[i].value))
    => C23_OneTriplePerNonNullField

(***************************************************************************)
(* C21: link_artifact_to_images returns each image identifier at most      *)
(* once, with the entry of the highest-priority strategy that matched the  *)
(* image (LLM reference, explicit reference, artifact code, keyword, tomb  *)
(* context); an image matched through the artifact's image_references is   *)
(* returned with confidence 0.98 and stands before every image that was    *)
(* not matched that way; display_order is the position in the list, which  *)
(* is sorted by descending confidence, then ascending distance.            *)
(***************************************************************************)
StrategyLists ==
  << [method |-> "llm_reference",
      images |-> find_images_by_llm_references(content_list, artifact.image_references)],
     [method |-> "explicit_reference",
      images |-> find_images_by_explicit_reference(content_list)],
     [method |-> "artifact_code",
      images |-> find_images_by_artifact_code(content_list, 1)],
     [method |-> "text_content",
      images |-> find_images_by_text_content(content_list, 1)],
     [method |-> "tomb_context",
      images |-> find_images_by_tomb(content_list, 1)] >>

MatchedBy(k, h) ==
  \E n \in 1..Len(StrategyLists[k].images) : StrategyLists[k].images[n].image_hash = h

FirstStrategy(h) ==
  LET k == CHOOSE k \in 1..5 : MatchedBy(k, h) /\ \A j \in 1..(k - 1) : ~MatchedBy(j, h)
  IN StrategyLists[k].method

ReferencedImages == { h \in Hashes : MatchedBy(1, h) }

C21_RankedDeduplicatedLinks ==
  lpc = "done" =>
    LET n == Len(linked_images) IN
    /\ \A i, j \in 1..n : i # j => linked_images[i].image_hash # linked_images[j].image_hash
    /\ \A i \in 1..n : all_images[i].match_method = FirstStrategy(linked_images[i].image_hash)
    /\ \A h \in ReferencedImages :
         \E i \in 1..n :
           /\ linked_images[i].image_hash = h
           /\ linked_images[i].confidence = LLMConfidence
           /\ \A j \in 1..(i - 1) : linked_images[j].image_hash \in ReferencedImages
    /\ \A i \in 1..n : linked_images[i].display_order = i - 1
    /\ \A i, j \in 1..n : i < j => ~key_before(all_images[j], all_images[i])

\* the same statement for artifacts with at most two descriptive keywords
C21_Sanity == artifact.keywords <= 2 => C21_RankedDeduplicatedLinks

(***************************************************************************)
(* C24: every confidence that link_artifact_to_images returns lies in      *)
(* [0, 1], whatever the number of keywords a text matches.                 *)
(***************************************************************************)
C24_ConfidenceInUnitInterval ==
  \A i \in 1..Len(linked_images) :
    linked_images[i].confidence >= 0 /\ linked_images[i].confidence <= 100

\* the same statement for artifacts with at most three descriptive keywords
C24_Sanity == artifact.keywords <= 3 => C24_ConfidenceInUnitInterval

====
